---------------------------- MODULE Spec2Model ----------------------------
(***************************************************************************)
(* Model of the market-signal decision engine of KingRaver/shoes.          *)
(*                                                                         *)
(*   - CoinGeckoHandler (src/config.py): cached, rate-limited, retrying    *)
(*     access to the market-data endpoint.                                 *)
(*   - Layer1AnalysisBot._should_post_update (src/bot.py): the trigger     *)
(*     decision and its baseline snapshot.                                 *)
(*   - determine_advanced_mood (src/mood_config.py), the volume trend and  *)
(*     the correlations of src/bot.py.                                     *)
(*   - the prediction tracker (_track_prediction, _get_spicy_callback,     *)
(*     _validate_past_prediction) and the analysis cycle around all of     *)
(*     them (_run_analysis_cycle and the loop of start()).                 *)
(*                                                                         *)
(* Time is the wall clock in whole seconds (time.time() and datetime.now() *)
(* read the same clock).  The program is single-threaded: one call of      *)
(* get_market_data runs to completion before anything else happens, so a   *)
(* call is a sequence of steps of one process whose position is pc.        *)
(***************************************************************************)
EXTENDS Integers, Sequences, FiniteSets, TLC

VARIABLES
    now,                  \* the wall clock, seconds
    \* ---- CoinGeckoHandler fields (src/config.py:20-33)
    cache,                \* cache_key -> [data, timestamp]
    last_request_time,
    rate_limit_remaining, \* Unset or Some(integer)
    rate_limit_reset_at,  \* Unset or Some(time)
    daily_requests,
    daily_reset_time,
    failed_requests,
    \* ---- the running get_market_data call (its locals and position)
    pc,                   \* "idle" | "loop" | "ready" | "sent"
    params,               \* the params argument of the current/last call
    cache_key,
    retry_count,
    wait_time,            \* the last wait_time computed in the call
    response,             \* the last response the call received
    result,               \* what the last finished call returned
    issued,               \* outbound requests issued by the current call
    last_ok,              \* history: params and arrival time of the last 200 answer
    \* ---- Layer1AnalysisBot fields and the last _should_post_update call
    last_market_data,
    last_check_time,
    store_reads,          \* the Store history reads of the last call, in order
    new_data,             \* the new_data argument of the last call
    should_post,
    trigger_reason,
    tstate,               \* "init" | "returned" | "raised": how the last call ended
    \* ---- determine_advanced_mood: its argument, its local dict and its result
    indicators,
    mood_scores,          \* the items of the dict, in insertion order
    mood,                 \* None until the classifier has returned
    \* ---- _analyze_volume_trend: its arguments and what it returned
    trend_args,           \* [current_volume, historical_data]
    volume_trend,         \* Unset or Some([change, trend])
    \* ---- _calculate_correlations: its argument, what it returned, the Store
    market_data,
    correlations,         \* Unset or Some(the dict returned)
    cstate,               \* "init" | "computed" | "fallback"
    correlation_rows,     \* the rows of the Store's correlation_analysis table
    \* ---- _validate_past_prediction: its arguments and how it ended
    validate_args,        \* [prediction, current_prices]
    validate_result,      \* Unset, Some("right"), Some("wrong") or Some("raised")
    \* ---- the prediction tracker: the bot's list and its last operation
    past_predictions,     \* the dicts of self.past_predictions, in list order
    pstate,               \* "init" | "tracked" | "returned" | "raised"
    current_prices,       \* the argument of the last _get_spicy_callback call
    callback,             \* what it returned: Unset for None, else Some(the text)
    validated,            \* history: the list positions it validated, in order
    pruned,               \* history: the entries the last _track_prediction dropped
    recorded_in,          \* history: for each entry of the list, its cycle
    \* ---- _run_analysis_cycle: its position, its locals, the collaborators
    cycle,                \* history: the number of the running cycle
    cycle_pc,             \* "fetch" | "decide" | "analyze" | "generate" |
                          \* "similarity" | "check_duplicate" | "post" | "done"
    api_data,             \* what get_market_data returned to _get_crypto_data
    crypto_data,          \* what _get_crypto_data returned: Unset for None
    market_rows,          \* the chains whose rows the last _get_crypto_data stored
    analysis_retry,       \* retry_count of _analyze_market_sentiment
    narrative,            \* the text the narrative generator returned
    analysis,             \* what _analyze_market_sentiment returned: Unset for None
    posted_content,       \* the rows of the Store's posted_content table
    posted,               \* history: the updates published, each with its cycle
    dup_check,            \* history: what check_content_similarity did in the
                          \* cycle's duplicate check, None before it
    \* ---- start(): its position and its locals
    start_pc,             \* "setup" | "running" | "stopping" | "returned" | "raised"
    setup_retry,          \* retry_count of the setup loop
    ended_by,             \* history: None, "interrupt", "setup_exhausted", "exception"
    cleanup_runs          \* history: how many times _cleanup was entered

fetch_vars == <<cache, last_request_time, rate_limit_remaining, rate_limit_reset_at,
                daily_requests, daily_reset_time, failed_requests, pc, params,
                cache_key, retry_count, wait_time, response, result, issued,
                last_ok>>
mood_vars == <<indicators, mood_scores, mood>>
trend_vars == <<trend_args, volume_trend>>
corr_vars == <<market_data, correlations, cstate, correlation_rows>>
validate_vars == <<validate_args, validate_result>>
pred_vars == <<past_predictions, pstate, current_prices, callback, validated, pruned,
               recorded_in>>
cycle_vars == <<cycle, cycle_pc, api_data, crypto_data, market_rows, analysis_retry,
                narrative, analysis, posted_content, posted, dup_check>>
tracker_vars == <<validate_vars, pred_vars, cycle_vars>>
start_vars == <<start_pc, setup_retry, ended_by, cleanup_runs>>
analysis_vars == <<mood_vars, trend_vars, corr_vars, tracker_vars, start_vars>>
bot_vars == <<last_market_data, last_check_time, store_reads, new_data,
              should_post, trigger_reason, tstate, analysis_vars>>
vars == <<now, fetch_vars, last_ok, bot_vars>>

\* Python's None where the other values are strings
None == "None"
\* An optional number: Unset is None, Some(x) is the value x
Unset == << >>
Some(x) == << x >>

Max(a, b) == IF a >= b THEN a ELSE b
Abs(a) == IF a >= 0 THEN a ELSE 0 - a

RECURSIVE Pow2(_)
Pow2(n) == IF n = 0 THEN 1 ELSE 2 * Pow2(n - 1)

(***************************************************************************)
(* Bounds of the model.                                                    *)
(***************************************************************************)
StartTime == 100000     \* the clock at construction
Horizon == 62           \* no call starts and no idle time passes later than this
Latency == 1            \* a request is answered (or fails) this long after it is sent
FutureReset == 3        \* X-RateLimit-Reset may lie this many seconds ahead

MaxTime == StartTime + Horizon

(***************************************************************************)
(* Program constants of CoinGeckoHandler.                                  *)
(***************************************************************************)
min_request_interval == 6
cache_duration == 60
max_retries == 3
base_wait == 5
default_wait_time == 60
SecondsPerDay == 86400

(***************************************************************************)
(* Request parameters.  A Python dict keeps insertion order, so params is  *)
(* a sequence of <<name, value>> pairs; json.dumps(..., sort_keys=True)    *)
(* serialises it with the names in sorted order.                           *)
(***************************************************************************)
KeyRank(name) ==
    CASE name = "ids" -> 1
      [] name = "sparkline" -> 2
      [] name = "vs_currency" -> 3

RECURSIVE Insert(_, _)
Insert(pair, sorted) ==
    IF sorted = << >> THEN << pair >>
    ELSE IF KeyRank(pair[1]) <= KeyRank(Head(sorted)[1])
         THEN << pair >> \o sorted
         ELSE << Head(sorted) >> \o Insert(pair, Tail(sorted))

RECURSIVE SortKeys(_)
SortKeys(p) == IF p = << >> THEN << >> ELSE Insert(Head(p), SortKeys(Tail(p)))

\* json.dumps(params, sort_keys=True)
JsonDumpsSorted(p) == SortKeys(p)

\* Mutant: the key built without sort_keys
CacheKeyUnsorted(p) == << "markets" >> \o p

\* cache_key = f"markets_{json.dumps(params, sort_keys=True)}"
CacheKey(p) == << "markets" >> \o JsonDumpsSorted(p)

ParamsBoth == << <<"ids", "solana,polkadot">>, <<"vs_currency", "usd">> >>
ParamsBothSwapped == << <<"vs_currency", "usd">>, <<"ids", "solana,polkadot">> >>
\* The bot always asks for the same dict; the model varies its insertion order.
ParamsSet == {ParamsBoth, ParamsBothSwapped}

Payloads == {"payload_a", "payload_b"}


(***************************************************************************)
(* Responses of the upstream API.  A response carries a status and the     *)
(* rate-limit headers; a request may also end without any response.        *)
(***************************************************************************)
NoResponse == [status |-> "none", headers |-> "none", offset |-> 0]

\* Header variants: absent; both present and numeric; X-RateLimit-Remaining
\* not numeric; X-RateLimit-Remaining numeric but X-RateLimit-Reset not.
HeaderKinds == {"absent", "valid", "malformed", "bad_reset"}

\* The remaining-quota value a well-formed X-RateLimit-Remaining header carries.
HeaderRemaining == 1

(***************************************************************************)
(* CoinGeckoHandler helpers.                                               *)
(***************************************************************************)
\* _update_rate_limits: the new <<rate_limit_remaining, rate_limit_reset_at>>.
\* A missing header reads as 0; a value int() rejects raises inside the try,
\* leaving whatever was assigned before it.
UpdateRateLimits(kind, reset, old_remaining, old_reset_at) ==
    CASE kind = "absent"    -> << Some(0), Some(0) >>
      [] kind = "valid"     -> << Some(HeaderRemaining), Some(reset) >>
      [] kind = "bad_reset" -> << Some(HeaderRemaining), old_reset_at >>
      [] kind = "malformed" -> << old_remaining, old_reset_at >>

\* Mutant: an entry aged exactly cache_duration still served
ShouldUseCacheInclusive(key, c, t) ==
    IF key \notin DOMAIN c THEN FALSE
    ELSE t - c[key].timestamp <= cache_duration

\* _should_use_cache
ShouldUseCache(key, c, t) ==
    IF key \notin DOMAIN c THEN FALSE
    ELSE t - c[key].timestamp < cache_duration

\* As CacheResponse, an entry already there kept as it is.
CacheResponseKeepFirst(key, data, c, t) ==
    IF key \in DOMAIN c THEN c
    ELSE [k \in DOMAIN c \cup {key} |->
            IF k = key THEN [data |-> data, timestamp |-> t] ELSE c[k]]

\* _cache_response
CacheResponse(key, data, c, t) ==
    [k \in DOMAIN c \cup {key} |->
        IF k = key THEN [data |-> data, timestamp |-> t] ELSE c[k]]

\* _clean_old_cache (defined by the handler, called from nowhere)
CleanOldCache(c, t) ==
    [k \in {x \in DOMAIN c : ~(t - c[x].timestamp > cache_duration)} |-> c[k]]

\* Mutant: the sleep one second short
RateLimitSleepShort(t, last) ==
    IF t - last < min_request_interval
    THEN min_request_interval - (t - last) - 1
    ELSE 0

\* _wait_for_rate_limit, lines 86-92: the time slept before a request
RateLimitSleep(t, last) ==
    IF t - last < min_request_interval
    THEN min_request_interval - (t - last)
    ELSE 0

\* Mutant: the reset only once more than a day has passed
DailyResetDueStrict(t, reset_time) == t - reset_time > SecondsPerDay

\* _wait_for_rate_limit, line 95: (datetime.now() - daily_reset_time).days > 0
DailyResetDue(t, reset_time) == (t - reset_time) \div SecondsPerDay > 0

\* _handle_rate_limit_response: the time slept after a 429
RateLimitWait(reset_at, t) ==
    IF reset_at # Unset
    THEN Max(1, (reset_at[1] - t) + 1)
    ELSE default_wait_time

\* Mutant: a linear backoff
BackoffWaitLinear(rc) == base_wait * (rc + 1)

\* get_market_data, lines 174 and 184: wait_time = base_wait * (2 ** retry_count)
BackoffWait(rc) == base_wait * Pow2(rc)

\* Mutant: one retry too many
RetriesLeftInclusive(rc) == rc <= max_retries

\* get_market_data, line 136: while retry_count < max_retries
RetriesLeft(rc) == rc < max_retries

\* get_request_stats
RequestStats ==
    [daily_requests |-> daily_requests,
     failed_requests |-> failed_requests,
     cache_size |-> Cardinality(DOMAIN cache),
     rate_limit_remaining |-> rate_limit_remaining,
     rate_limit_reset_at |-> rate_limit_reset_at]

(***************************************************************************)
(* get_market_data, step by step.                                          *)
(***************************************************************************)
\* Lines 126-134: the cache lookup; a hit returns at once.
Call(p) ==
    /\ pc = "idle"
    /\ now <= MaxTime
    /\ params' = p
    /\ cache_key' = CacheKey(p)
    /\ retry_count' = 0
    /\ wait_time' = 0
    /\ response' = NoResponse
    /\ issued' = 0
    /\ IF ShouldUseCache(CacheKey(p), cache, now)
       THEN /\ result' = cache[CacheKey(p)].data
            /\ pc' = "idle"
       ELSE /\ result' = "pending"
            /\ pc' = "loop"
    /\ UNCHANGED <<now, cache, last_request_time, rate_limit_remaining,
                   rate_limit_reset_at, daily_requests, daily_reset_time,
                   failed_requests, last_ok, bot_vars>>

\* As ResetCounters, the failures of the day before kept.
ResetDailyOnly(requests, failures) == << 0, failures >>

\* Lines 96-97: daily_requests and failed_requests after the daily reset
ResetCounters(requests, failures) == << 0, 0 >>

\* Lines 136-138 with _wait_for_rate_limit: sleep, then the daily reset.
WaitForRateLimit ==
    /\ pc = "loop"
    /\ RetriesLeft(retry_count)
    /\ now' = now + RateLimitSleep(now, last_request_time)
    /\ IF DailyResetDue(now', daily_reset_time)
       THEN /\ daily_requests' = ResetCounters(daily_requests, failed_requests)[1]
            /\ failed_requests' = ResetCounters(daily_requests, failed_requests)[2]
            /\ daily_reset_time' = now'
       ELSE UNCHANGED <<daily_requests, failed_requests, daily_reset_time>>
    /\ pc' = "ready"
    /\ UNCHANGED <<cache, last_request_time, rate_limit_remaining, rate_limit_reset_at,
                   params, cache_key, retry_count, wait_time, response, result,
                   issued, last_ok, bot_vars>>

\* Lines 143-146: the request goes out.
SendRequest ==
    /\ pc = "ready"
    /\ last_request_time' = now
    /\ daily_requests' = daily_requests + 1
    /\ issued' = issued + 1
    /\ pc' = "sent"
    /\ UNCHANGED <<now, cache, rate_limit_remaining, rate_limit_reset_at,
                   daily_reset_time, failed_requests, params, cache_key, retry_count,
                   wait_time, response, result, last_ok, bot_vars>>

\* Lines 195-196: the retries are used up.
MaxRetriesReached ==
    /\ pc = "loop"
    /\ ~RetriesLeft(retry_count)
    /\ result' = None
    /\ pc' = "idle"
    /\ UNCHANGED <<now, cache, last_request_time, rate_limit_remaining,
                   rate_limit_reset_at, daily_requests, daily_reset_time,
                   failed_requests, params, cache_key, retry_count, wait_time,
                   response, issued, last_ok, bot_vars>>

\* What the headers of a response can be: a kind and, for a well-formed
\* X-RateLimit-Reset, its distance from the time the response arrives (a reset
\* time in the past is what an absent header, read as 0, gives).
HeaderChoices ==
    {[kind |-> k, offset |-> 0] : k \in HeaderKinds \ {"valid"}}
        \cup {[kind |-> "valid", offset |-> FutureReset]}

Latencies == {Latency}

\* The response as the call sees it.
ResponseOf(status, h) ==
    [status |-> status, headers |-> h.kind, offset |-> h.offset]

\* Line 149: self._update_rate_limits(response)
LimitsAfter(h, t) ==
    UpdateRateLimits(h.kind, t + h.offset, rate_limit_remaining, rate_limit_reset_at)

\* Lines 151-161: HTTP 200 with a body json() accepts.
ReceiveOk(h, data, lat) ==
    /\ pc = "sent"
    /\ now' = now + lat
    /\ response' = ResponseOf("ok", h)
    /\ rate_limit_remaining' = LimitsAfter(h, now')[1]
    /\ rate_limit_reset_at' = LimitsAfter(h, now')[2]
    /\ cache' = CacheResponse(cache_key, data, cache, now')
    /\ result' = data
    /\ last_ok' = << [params |-> params, time |-> now'] >>
    /\ pc' = "idle"
    /\ UNCHANGED <<last_request_time, daily_requests, daily_reset_time, failed_requests,
                   params, cache_key, retry_count, wait_time, issued, bot_vars>>

\* Lines 163-170: HTTP 429.
ReceiveRateLimited(h, lat) ==
    /\ pc = "sent"
    /\ response' = ResponseOf("rate_limited", h)
    /\ rate_limit_remaining' = LimitsAfter(h, now + lat)[1]
    /\ rate_limit_reset_at' = LimitsAfter(h, now + lat)[2]
    /\ failed_requests' = failed_requests + 1
    /\ wait_time' = RateLimitWait(rate_limit_reset_at', now + lat)
    /\ now' = now + lat + wait_time'
    /\ retry_count' = retry_count + 1
    /\ pc' = "loop"
    /\ UNCHANGED <<cache, last_request_time, daily_requests, daily_reset_time,
                   params, cache_key, result, issued, last_ok, bot_vars>>

\* Lines 172-180: any other status.
ReceiveHttpError(h, lat) ==
    /\ pc = "sent"
    /\ response' = ResponseOf("http_error", h)
    /\ rate_limit_remaining' = LimitsAfter(h, now + lat)[1]
    /\ rate_limit_reset_at' = LimitsAfter(h, now + lat)[2]
    /\ failed_requests' = failed_requests + 1
    /\ wait_time' = BackoffWait(retry_count)
    /\ now' = now + lat + wait_time'
    /\ retry_count' = retry_count + 1
    /\ pc' = "loop"
    /\ UNCHANGED <<cache, last_request_time, daily_requests, daily_reset_time,
                   params, cache_key, result, issued, last_ok, bot_vars>>

\* Lines 182-187: requests.exceptions.Timeout.
ReceiveTimeout(lat) ==
    /\ pc = "sent"
    /\ response' = [status |-> "timeout", headers |-> "none", offset |-> 0]
    /\ failed_requests' = failed_requests + 1
    /\ wait_time' = BackoffWait(retry_count)
    /\ now' = now + lat + wait_time'
    /\ retry_count' = retry_count + 1
    /\ pc' = "loop"
    /\ UNCHANGED <<cache, last_request_time, rate_limit_remaining, rate_limit_reset_at,
                   daily_requests, daily_reset_time, params, cache_key, result,
                   issued, last_ok, bot_vars>>

\* Lines 189-193, reached from line 152: HTTP 200 whose body json() rejects.
ReceiveBadJson(h, lat) ==
    /\ pc = "sent"
    /\ now' = now + lat
    /\ response' = ResponseOf("bad_json", h)
    /\ rate_limit_remaining' = LimitsAfter(h, now')[1]
    /\ rate_limit_reset_at' = LimitsAfter(h, now')[2]
    /\ failed_requests' = failed_requests + 1
    /\ result' = None
    /\ pc' = "idle"
    /\ UNCHANGED <<cache, last_request_time, daily_requests, daily_reset_time,
                   params, cache_key, retry_count, wait_time, issued, last_ok, bot_vars>>

\* As ReceiveException, the failure handled as a timeout is: backoff, retry.
ReceiveExceptionRetried(lat) ==
    /\ pc = "sent"
    /\ response' = [status |-> "exception", headers |-> "none", offset |-> 0]
    /\ failed_requests' = failed_requests + 1
    /\ wait_time' = BackoffWait(retry_count)
    /\ now' = now + lat + wait_time'
    /\ retry_count' = retry_count + 1
    /\ pc' = "loop"
    /\ UNCHANGED <<cache, last_request_time, rate_limit_remaining, rate_limit_reset_at,
                   daily_requests, daily_reset_time, params, cache_key, result,
                   issued, last_ok, bot_vars>>

\* Lines 189-193, reached from line 146: session.get raises something else.
ReceiveException(lat) ==
    /\ pc = "sent"
    /\ now' = now + lat
    /\ response' = [status |-> "exception", headers |-> "none", offset |-> 0]
    /\ failed_requests' = failed_requests + 1
    /\ result' = None
    /\ pc' = "idle"
    /\ UNCHANGED <<cache, last_request_time, rate_limit_remaining, rate_limit_reset_at,
                   daily_requests, daily_reset_time, params, cache_key, retry_count,
                   wait_time, issued, last_ok, bot_vars>>

\* Time passing between two calls (the bot's own work and its sleeps).
IdleGaps == {cache_duration - 1, cache_duration}

\* The frame of the returned call is gone: its locals are forgotten.
Idle(d) ==
    /\ pc = "idle"
    /\ now + d <= MaxTime
    /\ now' = now + d
    /\ retry_count' = 0
    /\ wait_time' = 0
    /\ response' = NoResponse
    /\ issued' = 0
    /\ UNCHANGED <<cache, last_request_time, rate_limit_remaining, rate_limit_reset_at,
                   daily_requests, daily_reset_time, failed_requests, pc, params,
                   cache_key, result, last_ok, bot_vars>>

(***************************************************************************)
(* Initial state: CoinGeckoHandler.__init__ and Layer1AnalysisBot.__init__ *)
(***************************************************************************)
FetchInit ==
    /\ cache = << >>
    /\ last_request_time = 0
    /\ rate_limit_remaining = Unset
    /\ rate_limit_reset_at = Unset
    /\ daily_requests = 0
    /\ failed_requests = 0
    /\ pc = "idle"
    /\ params = << >>
    /\ cache_key = << >>
    /\ retry_count = 0
    /\ wait_time = 0
    /\ response = NoResponse
    /\ result = None
    /\ issued = 0
    /\ last_ok = << >>

\* MoodIndicators.  price_change is in percent, volatility in hundredths
\* (0.08 is 8), trading_volume and liquidation_volume in units of 1e8 (1.5e9
\* is 15, 100e6 is 1), social_sentiment in tenths (0.7 is 7) and funding_rates
\* in hundredths (0.01 is 1); an optional indicator is Unset or Some(value).
MoodIndicators(change, volume, vola, social, funding, liquidation) ==
    [price_change |-> change, trading_volume |-> volume, volatility |-> vola,
     social_sentiment |-> social, funding_rates |-> funding,
     liquidation_volume |-> liquidation]

\* Lines 37-43: the dict as it is built, key after key
ZeroScores == << <<"bullish", 0>>, <<"bearish", 0>>, <<"neutral", 0>>,
                 <<"volatile", 0>>, <<"recovering", 0>> >>

\* No classification has been asked for.
MoodVarsInit ==
    /\ indicators = MoodIndicators(0, 0, 0, Unset, Unset, Unset)
    /\ mood_scores = ZeroScores
    /\ mood = None

\* No trend has been asked for.
TrendVarsInit ==
    /\ trend_args = [current_volume |-> 0, historical_data |-> << >>]
    /\ volume_trend = Unset

\* No correlations have been asked for; the Store's table is empty.
CorrVarsInit ==
    /\ market_data = << >>
    /\ correlations = Unset
    /\ cstate = "init"
    /\ correlation_rows = << >>

\* No validation has been asked for.
ValidateVarsInit ==
    /\ validate_args = << >>
    /\ validate_result = Unset

\* Line 33: no prediction yet; no tracker operation has run.
PredVarsInit ==
    /\ past_predictions = << >>
    /\ pstate = "init"
    /\ current_prices = << >>
    /\ callback = Unset
    /\ validated = << >>
    /\ pruned = << >>
    /\ recorded_in = << >>

\* The first cycle is about to start; nothing is stored or published.
CycleVarsInit ==
    /\ cycle = 1
    /\ cycle_pc = "fetch"
    /\ api_data = << >>
    /\ crypto_data = Unset
    /\ market_rows = << >>
    /\ analysis_retry = 0
    /\ narrative = None
    /\ analysis = Unset
    /\ posted_content = << >>
    /\ posted = << >>
    /\ dup_check = None

\* start() has finished its setup and is in its loop
StartVarsInit ==
    /\ start_pc = "running"
    /\ setup_retry = 0
    /\ ended_by = None
    /\ cleanup_runs = 0

TrackerVarsInit ==
    /\ ValidateVarsInit
    /\ PredVarsInit
    /\ CycleVarsInit

AnalysisInit ==
    /\ MoodVarsInit
    /\ TrendVarsInit
    /\ CorrVarsInit
    /\ TrackerVarsInit
    /\ StartVarsInit

BotInit ==
    /\ last_market_data = << >>
    /\ last_check_time = now
    /\ store_reads = << >>
    /\ new_data = << >>
    /\ should_post = FALSE
    /\ trigger_reason = None
    /\ tstate = "init"

Init ==
    /\ now = StartTime
    /\ daily_reset_time = now
    /\ FetchInit
    /\ BotInit
    /\ AnalysisInit

\* The fetcher: any sequence of get_market_data calls, any answers of the API.
Next ==
    \/ \E p \in ParamsSet : Call(p)
    \/ WaitForRateLimit
    \/ SendRequest
    \/ MaxRetriesReached
    \/ \E h \in HeaderChoices, data \in Payloads, lat \in Latencies : ReceiveOk(h, data, lat)
    \/ \E h \in HeaderChoices, lat \in Latencies : ReceiveRateLimited(h, lat)
    \/ \E h \in HeaderChoices, lat \in Latencies : ReceiveHttpError(h, lat)
    \/ \E lat \in Latencies : ReceiveTimeout(lat)
    \/ \E h \in HeaderChoices, lat \in Latencies : ReceiveBadJson(h, lat)
    \/ \E lat \in Latencies : ReceiveException(lat)
    \/ \E d \in IdleGaps : Idle(d)

Spec == Init /\ [][Next]_vars

\* A call in progress always takes its next step (the program does not stop
\* in the middle of a call; every sleep and every request ends).
CallSteps ==
    \/ WaitForRateLimit
    \/ SendRequest
    \/ MaxRetriesReached
    \/ \E h \in HeaderChoices, data \in Payloads, lat \in Latencies : ReceiveOk(h, data, lat)
    \/ \E h \in HeaderChoices, lat \in Latencies : ReceiveRateLimited(h, lat)
    \/ \E h \in HeaderChoices, lat \in Latencies : ReceiveHttpError(h, lat)
    \/ \E lat \in Latencies : ReceiveTimeout(lat)
    \/ \E h \in HeaderChoices, lat \in Latencies : ReceiveBadJson(h, lat)
    \/ \E lat \in Latencies : ReceiveException(lat)

FairSpec == Spec /\ WF_vars(CallSteps)

\* The handler as it stands a day (less a second, or to the second) after its
\* construction with no call made in between.
DayInit ==
    /\ now = StartTime
    /\ daily_reset_time \in {now - SecondsPerDay, now - SecondsPerDay + 1}
    /\ FetchInit
    /\ BotInit
    /\ AnalysisInit

DaySpec == DayInit /\ [][Next]_vars

(***************************************************************************)
(* Layer1AnalysisBot: the trigger decision.                                *)
(*                                                                         *)
(* Prices and volumes are integers and every percentage test is done on    *)
(* exact fractions: a / b * 100 >= T is a * 100 >= T * b for b > 0.        *)
(***************************************************************************)
\* Mutant: the chains iterated in the other order
TargetChainsDotFirst == << "DOT", "SOL" >>

\* self.target_chains, in the order its keys are iterated
TargetChains == << "SOL", "DOT" >>

\* chain.lower()
Lower(chain) == CASE chain = "SOL" -> "sol" [] chain = "DOT" -> "dot"

\* Thresholds of the bot's configuration object (self.config).  The class that
\* sets them is not among the sources; the trend threshold is the one the
\* specification uses in its examples, the others are representative values.
PRICE_CHANGE_THRESHOLD == 5
VOLUME_CHANGE_THRESHOLD == 10
VOLUME_TREND_THRESHOLD == 10
BASE_INTERVAL == 60

\* The snapshots _get_crypto_data can hand over: both tracked chains present.
SolPrices == {0, 100, 105}
DotPrices == {100, 105}
SolVolumes == {0, 1000, 1100}
DotVolumes == {0, 1000}
Snapshots ==
    {[c \in {"SOL", "DOT"} |->
        IF c = "SOL" THEN [current_price |-> sp, volume |-> sv]
                     ELSE [current_price |-> dp, volume |-> dv]] :
        sp \in SolPrices, sv \in SolVolumes, dp \in DotPrices, dv \in DotVolumes}

\* What _get_historical_volume_data can return for a chain: the volumes of the
\* rows in the window, none when the Store has none or the query fails.
Histories == {<< >>, << 1000 >>, << 1000, 800 >>, << 0 >>}

RECURSIVE SumSeq(_)
SumSeq(q) == IF q = << >> THEN 0 ELSE Head(q) + SumSeq(Tail(q))

\* Mutant: a change must exceed a threshold to be classified by it
AnalyzeVolumeTrendExclusive(current_volume, historical_data) ==
    LET n == Len(historical_data)
        total == SumSeq(historical_data)
        num == (current_volume * n - total) * 100
    IN  IF historical_data = << >>
        THEN [change |-> << 0, 1 >>, trend |-> "insufficient_data"]
        ELSE IF total = 0
        THEN [change |-> << 0, 1 >>, trend |-> "error"]
        ELSE [change |-> << num, total >>,
              trend |->
                IF num > VOLUME_TREND_THRESHOLD * total THEN "significant_increase"
                ELSE IF num < (0 - VOLUME_TREND_THRESHOLD) * total
                     THEN "significant_decrease"
                ELSE IF num > 5 * total THEN "moderate_increase"
                ELSE IF num < (0 - 5) * total THEN "moderate_decrease"
                ELSE "stable"]

\* _analyze_volume_trend: the change is the fraction num / den (percent).
AnalyzeVolumeTrend(current_volume, historical_data) ==
    LET n == Len(historical_data)
        total == SumSeq(historical_data)
        num == (current_volume * n - total) * 100
    IN  IF historical_data = << >>
        THEN [change |-> << 0, 1 >>, trend |-> "insufficient_data"]
        ELSE IF total = 0
        THEN [change |-> << 0, 1 >>, trend |-> "error"]
        ELSE [change |-> << num, total >>,
              trend |->
                IF num >= VOLUME_TREND_THRESHOLD * total THEN "significant_increase"
                ELSE IF num <= (0 - VOLUME_TREND_THRESHOLD) * total
                     THEN "significant_decrease"
                ELSE IF num >= 5 * total THEN "moderate_increase"
                ELSE IF num <= (0 - 5) * total THEN "moderate_decrease"
                ELSE "stable"]

\* Mutant: the threshold itself does not fire
ChangeAbove(new, last, threshold) == Abs(new - last) * 100 > threshold * last

\* Lines 204-213: abs((new - last) / last * 100) >= threshold, for last > 0
ChangeAtLeast(new, last, threshold) == Abs(new - last) * 100 >= threshold * last

\* As DividesByZero, the volume of the baseline not dividing.
DividesByZeroPrice(snapshot) == snapshot.current_price = 0

\* Lines 203-211: the baseline's price and volume of a chain are divisors
DividesByZero(snapshot) == snapshot.current_price = 0 \/ snapshot.volume = 0

\* Line 232: one call of _get_historical_volume_data, and what it returned
StoreRead(chain, hist) == [chain |-> chain, volumes |-> hist[chain]]

\* Lines 199-251: the loop over the chains from the i-th on.  The outcome is
\* the trigger reason found (None if none), whether a division by zero was
\* raised, and the reads of the Store's history made on the way.
RECURSIVE CheckChains(_, _, _, _)
CheckChains(i, nd, last, hist) ==
    IF i > Len(TargetChains)
    THEN [reason |-> None, raised |-> FALSE, reads |-> << >>]
    ELSE LET chain == TargetChains[i]
             rest == CheckChains(i + 1, nd, last, hist)
         IN  IF chain \notin DOMAIN nd \/ chain \notin DOMAIN last
             THEN rest
             ELSE IF DividesByZero(last[chain])
             THEN [reason |-> None, raised |-> TRUE, reads |-> << >>]
             ELSE IF ChangeAtLeast(nd[chain].current_price, last[chain].current_price,
                                   PRICE_CHANGE_THRESHOLD)
             THEN [reason |-> "price_change_" \o Lower(chain), raised |-> FALSE,
                   reads |-> << >>]
             ELSE IF ChangeAtLeast(nd[chain].volume, last[chain].volume,
                                   VOLUME_CHANGE_THRESHOLD)
             THEN [reason |-> "volume_change_" \o Lower(chain), raised |-> FALSE,
                   reads |-> << >>]
             ELSE LET t == AnalyzeVolumeTrend(nd[chain].volume, hist[chain]).trend
                  IN  IF hist[chain] # << >>
                         /\ t \in {"significant_increase", "significant_decrease"}
                      THEN [reason |-> "volume_trend_" \o Lower(chain) \o "_" \o t,
                            raised |-> FALSE, reads |-> << StoreRead(chain, hist) >>]
                      ELSE [rest EXCEPT
                                !.reads = << StoreRead(chain, hist) >> \o rest.reads]

\* Mutant: the interval must be exceeded, and it replaces the reason found
IntervalReasonStrict(reason, t, check_time) ==
    IF t - check_time > BASE_INTERVAL THEN "regular_interval" ELSE reason

\* Lines 253-258: the regular interval
IntervalReason(reason, t, check_time) ==
    IF t - check_time >= BASE_INTERVAL
    THEN (IF reason # None THEN reason ELSE "regular_interval")
    ELSE reason

\* Mutant: the decision taken without the regular-interval reason
ShouldPostBeforeInterval(reason) == reason # None /\ reason # "regular_interval"

\* Line 260: should_post = trigger_reason is not None
ShouldPost(reason) == reason # None

\* Mutant: the baseline replaced on every call
NewBaselineAlways(post, nd, last) == nd

\* Lines 260-262: the baseline after the decision
NewBaseline(post, nd, last) == IF post THEN nd ELSE last

\* Mutant: the test `is None`, which the empty dict of the constructor fails
NoBaselineOnlyNone(last) == FALSE

\* Line 192: not self.last_market_data
NoBaseline(last) == last = << >>

\* _should_post_update(new_data), the Store answering with hist: what the
\* call does to the bot.
ShouldPostUpdateBody(nd, hist) ==
    /\ new_data' = nd
    /\ IF NoBaseline(last_market_data)
       THEN \* lines 192-194
            /\ last_market_data' = nd
            /\ should_post' = TRUE
            /\ trigger_reason' = "initial_post"
            /\ store_reads' = << >>
            /\ tstate' = "returned"
       ELSE LET scan == CheckChains(1, nd, last_market_data, hist)
                reason == IntervalReason(scan.reason, now, last_check_time)
            IN  IF scan.raised
                THEN \* ZeroDivisionError leaves the method at line 204 or 210
                     /\ tstate' = "raised"
                     /\ store_reads' = scan.reads
                     /\ UNCHANGED <<last_market_data, should_post, trigger_reason>>
                ELSE /\ tstate' = "returned"
                     /\ store_reads' = scan.reads
                     /\ trigger_reason' = reason
                     /\ should_post' = ShouldPost(reason)
                     /\ last_market_data' =
                            NewBaseline(ShouldPost(reason), nd, last_market_data)

\* _should_post_update(new_data) called on its own
ShouldPostUpdate(nd, hist) ==
    /\ ShouldPostUpdateBody(nd, hist)
    /\ UNCHANGED <<now, last_check_time, fetch_vars, analysis_vars>>

\* The rest of a cycle takes time (fetching, generating, posting).
CycleGaps == {BASE_INTERVAL - 1, BASE_INTERVAL}

CycleHorizon == 60      \* the trigger engine is watched this long

Elapse(d) ==
    /\ now + d <= StartTime + CycleHorizon
    /\ now' = now + d
    /\ UNCHANGED <<fetch_vars, bot_vars>>

\* start(), lines 167-173: sleep until the next regular check, then
\* last_check_time = datetime.now()
SleepUntilNextCheck ==
    /\ now' = now + Max(0, BASE_INTERVAL - (now - last_check_time))
    /\ now' <= StartTime + CycleHorizon
    /\ last_check_time' = now'
    /\ UNCHANGED <<fetch_vars, last_market_data, store_reads, new_data, should_post,
                   trigger_reason, tstate, analysis_vars>>

TriggerNext ==
    \/ \E nd \in Snapshots, hist \in [{"SOL", "DOT"} -> Histories] :
            ShouldPostUpdate(nd, hist)
    \/ \E d \in CycleGaps : Elapse(d)
    \/ SleepUntilNextCheck

TriggerSpec == Init /\ [][TriggerNext]_vars

(***************************************************************************)
(* determine_advanced_mood (mood_config.py).                               *)
(***************************************************************************)
\* The members of Mood, in the order of their definition
Moods == << "bullish", "bearish", "neutral", "volatile", "recovering" >>

\* mood_scores[m]
Score(scores, m) ==
    LET i == CHOOSE j \in DOMAIN scores : scores[j][1] = m IN scores[i][2]

\* mood_scores[m] += n: the key keeps its place in the dict
AddScore(scores, m, n) ==
    [j \in DOMAIN scores |->
        IF scores[j][1] = m THEN << m, scores[j][2] + n >> ELSE scores[j]]

\* Mutant: the neutral band gives no score
PriceChangeScoringNoNeutral(scores, ind) ==
    IF ind.price_change > 5 THEN AddScore(scores, "bullish", 3)
    ELSE IF ind.price_change < 0 - 5 THEN AddScore(scores, "bearish", 3)
    ELSE IF 0 - 2 <= ind.price_change /\ ind.price_change <= 2 THEN scores
    ELSE IF 0 - 5 <= ind.price_change /\ ind.price_change < 0 - 2
         THEN AddScore(scores, "recovering", 2)
    ELSE scores

\* Lines 46-53
PriceChangeScoring(scores, ind) ==
    IF ind.price_change > 5 THEN AddScore(scores, "bullish", 3)
    ELSE IF ind.price_change < 0 - 5 THEN AddScore(scores, "bearish", 3)
    ELSE IF 0 - 2 <= ind.price_change /\ ind.price_change <= 2
         THEN AddScore(scores, "neutral", 2)
    ELSE IF 0 - 5 <= ind.price_change /\ ind.price_change < 0 - 2
         THEN AddScore(scores, "recovering", 2)
    ELSE scores

\* Lines 56-59
VolatilityScoring(scores, ind) ==
    IF ind.volatility > 10 THEN AddScore(scores, "volatile", 3)
    ELSE IF 5 < ind.volatility /\ ind.volatility <= 10
         THEN AddScore(scores, "volatile", 1)
    ELSE scores

\* Mutant: bearish is raised only when the price fell
VolumeImpactFallingOnly(scores, ind) ==
    IF ind.trading_volume > 15
    THEN LET s == AddScore(scores, "volatile", 1)
         IN  IF ind.price_change > 0 THEN AddScore(s, "bullish", 1)
             ELSE IF ind.price_change < 0 THEN AddScore(s, "bearish", 1)
             ELSE s
    ELSE scores

\* Lines 62-67
VolumeImpact(scores, ind) ==
    IF ind.trading_volume > 15
    THEN LET s == AddScore(scores, "volatile", 1)
         IN  IF ind.price_change > 0 THEN AddScore(s, "bullish", 1)
             ELSE AddScore(s, "bearish", 1)
    ELSE scores

\* Lines 70-71
RecoveryPatterns(scores, ind) ==
    IF 0 - 8 <= ind.price_change /\ ind.price_change < 0 - 2 /\ ind.volatility < 8
    THEN AddScore(scores, "recovering", 2)
    ELSE scores

\* Lines 74-78
SocialSentiment(scores, ind) ==
    IF ind.social_sentiment # Unset
    THEN IF ind.social_sentiment[1] > 7 THEN AddScore(scores, "bullish", 1)
         ELSE IF ind.social_sentiment[1] < 3 THEN AddScore(scores, "bearish", 1)
         ELSE scores
    ELSE scores

\* Lines 80-82
FundingRates(scores, ind) ==
    IF ind.funding_rates # Unset /\ Abs(ind.funding_rates[1]) > 1
    THEN AddScore(scores, "volatile", 1)
    ELSE scores

\* Lines 84-87
LiquidationVolume(scores, ind) ==
    IF ind.liquidation_volume # Unset /\ ind.liquidation_volume[1] > 1
    THEN AddScore(AddScore(scores, "volatile", 2), "bearish", 1)
    ELSE scores

\* Lines 37-87: the dict when the last rule has been applied
MoodScores(ind) ==
    LET s1 == PriceChangeScoring(ZeroScores, ind)
        s2 == VolatilityScoring(s1, ind)
        s3 == VolumeImpact(s2, ind)
        s4 == RecoveryPatterns(s3, ind)
        s5 == SocialSentiment(s4, ind)
        s6 == FundingRates(s5, ind)
    IN  LiquidationVolume(s6, ind)

\* Mutant: an item that equals the best so far replaces it
RECURSIVE MaxItemLast(_, _, _)
MaxItemLast(items, i, best) ==
    IF i > Len(items) THEN best
    ELSE MaxItemLast(items, i + 1,
                     IF items[i][2] >= items[best][2] THEN i ELSE best)

\* max(items, key=score) from the i-th item on, best being the index of the
\* best item so far: only a strictly greater score replaces it.
RECURSIVE MaxItem(_, _, _)
MaxItem(items, i, best) ==
    IF i > Len(items) THEN best
    ELSE MaxItem(items, i + 1, IF items[i][2] > items[best][2] THEN i ELSE best)

\* Line 90
MaxMood(scores) == scores[MaxItem(scores, 2, 1)][1]

\* The indicators a caller may pass.
PriceChanges == {0 - 9, 0 - 8, 0 - 6, 0 - 5, 0 - 3, 0 - 2, 0, 2, 3, 5, 6}
Volatilities == {0, 5, 7, 8, 10, 11}
TradingVolumes == {10, 15, 16}
SocialSentiments == {Unset, Some(2), Some(3), Some(5), Some(7), Some(8)}
FundingRateValues == {Unset, Some(1), Some(2), Some(0 - 2)}
LiquidationVolumes == {Unset, Some(1), Some(2)}
IndicatorInputs ==
    {MoodIndicators(c, tv, v, ss, fr, lv) :
        c \in PriceChanges, tv \in TradingVolumes, v \in Volatilities,
        ss \in SocialSentiments, fr \in FundingRateValues, lv \in LiquidationVolumes}

\* determine_advanced_mood(indicators)
DetermineAdvancedMood ==
    /\ mood = None
    /\ mood_scores' = MoodScores(indicators)
    /\ mood' = MaxMood(mood_scores')
    /\ UNCHANGED <<now, fetch_vars, start_vars, indicators, last_market_data, last_check_time,
                   store_reads, new_data, should_post, trigger_reason, tstate,
                   trend_vars, corr_vars, tracker_vars>>

\* The classifier called once with any indicators.
MoodInit ==
    /\ now = StartTime
    /\ daily_reset_time = now
    /\ FetchInit
    /\ BotInit
    /\ indicators \in IndicatorInputs
    /\ mood_scores = ZeroScores
    /\ mood = None
    /\ TrendVarsInit
    /\ CorrVarsInit
    /\ TrackerVarsInit
    /\ StartVarsInit

MoodSpec == MoodInit /\ [][DetermineAdvancedMood]_vars

(***************************************************************************)
(* _analyze_volume_trend and _calculate_correlations (bot.py).  A number   *)
(* that the code obtains by a division is the exact fraction               *)
(* [num |-> n, den |-> d] with d > 0.                                      *)
(***************************************************************************)
\* The arguments _analyze_volume_trend may get: a current volume and the
\* volumes of the rows of the window.
CurrentVolumes == {9000, 9001, 9500, 9510, 10000, 10490, 10500, 10999, 11000, 12000}
HistoricalData ==
    {<< >>, << 10000 >>, << 12000, 8000 >>, << 9000, 10000, 11000 >>,
     << 10000, 10001 >>, << 20000 >>, << 0 >>, << 0, 0 >>}

\* _analyze_volume_trend(current_volume, historical_data)
AnalyzeVolumeTrendCall ==
    /\ volume_trend = Unset
    /\ volume_trend' = Some(AnalyzeVolumeTrend(trend_args.current_volume,
                                                trend_args.historical_data))
    /\ UNCHANGED <<now, fetch_vars, start_vars, last_market_data, last_check_time, store_reads,
                   new_data, should_post, trigger_reason, tstate, mood_vars,
                   trend_args, corr_vars, tracker_vars>>

\* The trend analysis called once with any arguments.
TrendInit ==
    /\ now = StartTime
    /\ daily_reset_time = now
    /\ FetchInit
    /\ BotInit
    /\ MoodVarsInit
    /\ trend_args \in [current_volume : CurrentVolumes, historical_data : HistoricalData]
    /\ volume_trend = Unset
    /\ CorrVarsInit
    /\ TrackerVarsInit
    /\ StartVarsInit

TrendSpec == TrendInit /\ [][AnalyzeVolumeTrendCall]_vars

\* A snapshot as _calculate_correlations reads it; the 24 h price change is
\* Unset when the API gave null for it.
ChainData(change, volume, cap) ==
    [price_change_percentage_24h |-> change, volume |-> volume, market_cap |-> cap]

SolChanges == {Unset, Some(0 - 5), Some(0), Some(2), Some(5)}
DotChanges == {Some(0 - 5), Some(0), Some(5)}
SolCaps == {0, 2}
DotCaps == {0, 1, 2}
CorrVolumes == {0, 1000, 1100}

\* The market_data _calculate_correlations may get: both chains, or SOL alone.
MarketData ==
    {[c \in {"SOL", "DOT"} |->
        IF c = "SOL" THEN ChainData(sc, sv, scap) ELSE ChainData(dc, dv, dcap)] :
        sc \in SolChanges, dc \in DotChanges, sv \in CorrVolumes,
        dv \in CorrVolumes \ {1100}, scap \in SolCaps, dcap \in DotCaps}
    \cup {[c \in {"SOL"} |-> ChainData(Some(5), 1000, 2)]}
    \cup {[c \in {"SOL", "DOT"} |->
              IF c = "SOL" THEN ChainData(Some(5), 1000, 2)
              ELSE [price_change_percentage_24h |-> Some(5), volume |-> 1000]]}

Fraction(n, d) == [num |-> n, den |-> d]

\* Lines 360-364: the dict returned when anything was raised
FallbackCorrelations ==
    [price_correlation |-> Fraction(0, 1), volume_correlation |-> Fraction(0, 1),
     market_cap_ratio |-> Fraction(1, 1)]

\* The keys lines 328-339 read from each snapshot
CorrelationFields == {"price_change_percentage_24h", "volume", "market_cap"}

\* As CorrelationsRaise, without the division by DOT's market cap.
CorrelationsRaiseNoCapCheck(md) ==
    \/ "SOL" \notin DOMAIN md
    \/ "DOT" \notin DOMAIN md
    \/ \E c \in {"SOL", "DOT"} : ~(CorrelationFields \subseteq DOMAIN md[c])
    \/ md["SOL"].price_change_percentage_24h = Unset
    \/ md["DOT"].price_change_percentage_24h = Unset
    \/ Max(Abs(md["SOL"].price_change_percentage_24h[1]),
           Abs(md["DOT"].price_change_percentage_24h[1])) = 0
    \/ Max(md["SOL"].volume, md["DOT"].volume) = 0

\* Lines 325-339 raise: a chain or a key missing (KeyError), a change that is
\* None (TypeError), a division by zero.
CorrelationsRaise(md) ==
    \/ "SOL" \notin DOMAIN md
    \/ "DOT" \notin DOMAIN md
    \/ \E c \in {"SOL", "DOT"} : ~(CorrelationFields \subseteq DOMAIN md[c])
    \/ md["SOL"].price_change_percentage_24h = Unset
    \/ md["DOT"].price_change_percentage_24h = Unset
    \/ Max(Abs(md["SOL"].price_change_percentage_24h[1]),
           Abs(md["DOT"].price_change_percentage_24h[1])) = 0
    \/ Max(md["SOL"].volume, md["DOT"].volume) = 0
    \/ md["DOT"].market_cap = 0

\* As ComputedCorrelations, with the volume difference taken relative to
\* SOL's volume instead of the larger one.
ComputedCorrelationsSolVolume(md) ==
    LET a == md["SOL"].price_change_percentage_24h[1]
        b == md["DOT"].price_change_percentage_24h[1]
        m == Max(Abs(a), Abs(b))
        va == md["SOL"].volume
        vb == md["DOT"].volume
    IN  [price_correlation |-> Fraction(m - Abs(a - b), m),
         volume_correlation |-> Fraction(va - Abs(va - vb), va),
         market_cap_ratio |-> Fraction(md["SOL"].market_cap, md["DOT"].market_cap)]

\* Lines 328-345: 1 - |a - b| / max(|a|, |b|), 1 - |va - vb| / max(va, vb) and
\* capA / capB, for volumes and caps that are not negative
ComputedCorrelations(md) ==
    LET a == md["SOL"].price_change_percentage_24h[1]
        b == md["DOT"].price_change_percentage_24h[1]
        m == Max(Abs(a), Abs(b))
        va == md["SOL"].volume
        vb == md["DOT"].volume
        mv == Max(va, vb)
    IN  [price_correlation |-> Fraction(m - Abs(a - b), m),
         volume_correlation |-> Fraction(mv - Abs(va - vb), mv),
         market_cap_ratio |-> Fraction(md["SOL"].market_cap, md["DOT"].market_cap)]

\* What store_correlation_analysis can do: insert the row, fail inside its
\* own try (logged, rolled back), or raise before it (no connection).
StoreOutcomes == {"stored", "write_failed", "no_connection"}

\* _calculate_correlations(market_data)
CalculateCorrelations(store) ==
    /\ cstate = "init"
    /\ IF CorrelationsRaise(market_data) \/ store = "no_connection"
       THEN /\ cstate' = "fallback"
            /\ correlations' = Some(FallbackCorrelations)
            /\ UNCHANGED correlation_rows
       ELSE /\ cstate' = "computed"
            /\ correlations' = Some(ComputedCorrelations(market_data))
            /\ correlation_rows' =
                  IF store = "stored"
                  THEN Append(correlation_rows, ComputedCorrelations(market_data))
                  ELSE correlation_rows
    /\ UNCHANGED <<now, fetch_vars, start_vars, last_market_data, last_check_time, store_reads,
                   new_data, should_post, trigger_reason, tstate, mood_vars,
                   trend_vars, market_data, tracker_vars>>

\* The correlations asked for once, for any market data.
CorrInit ==
    /\ now = StartTime
    /\ daily_reset_time = now
    /\ FetchInit
    /\ BotInit
    /\ MoodVarsInit
    /\ TrendVarsInit
    /\ market_data \in MarketData
    /\ correlations = Unset
    /\ cstate = "init"
    /\ correlation_rows = << >>
    /\ TrackerVarsInit
    /\ StartVarsInit

CorrNext == \E store \in StoreOutcomes : CalculateCorrelations(store)

CorrSpec == CorrInit /\ [][CorrNext]_vars

(***************************************************************************)
(* The prediction tracker (bot.py): _track_prediction,                     *)
(* _validate_past_prediction and _get_spicy_callback.  Prices are whole    *)
(* numbers that are not negative.                                          *)
(***************************************************************************)
\* Lines 530-536: the dict appended to past_predictions.  prices and
\* sentiment are keyed by the chains of the crypto data of the cycle.
Prediction(t, text, prices, sentiment, outcome) ==
    [timestamp |-> t, prediction |-> text, prices |-> prices,
     sentiment |-> sentiment, outcome |-> outcome]

\* Lines 543-547 and 553: sentiment_map.get(sentiment, 0)
SentimentSign(sentiment) ==
    CASE sentiment = "bullish" -> 1
      [] sentiment = "bearish" -> 0 - 1
      [] OTHER -> 0

\* Line 552 divides by the old price of a chain that is in both dicts.
ValidateRaises(prediction, prices) ==
    \E chain \in DOMAIN prediction.prices \cap DOMAIN prices :
        prediction.prices[chain] = 0

\* As WrongChains, a move against the sentiment of exactly 2 percent counted.
WrongChainsInclusive(prediction, prices) ==
    {chain \in DOMAIN prediction.prices \cap DOMAIN prices :
        SentimentSign(prediction.sentiment[chain])
            * (prices[chain] - prediction.prices[chain]) * 100
          <= (0 - 2) * prediction.prices[chain]}

\* Lines 549-556: the chains on which
\* sentiment * ((current - old) / old * 100) < -2, for old > 0
WrongChains(prediction, prices) ==
    {chain \in DOMAIN prediction.prices \cap DOMAIN prices :
        SentimentSign(prediction.sentiment[chain])
            * (prices[chain] - prediction.prices[chain]) * 100
          < (0 - 2) * prediction.prices[chain]}

\* Line 558
ValidatePastPrediction(prediction, prices) ==
    IF WrongChains(prediction, prices) # {} THEN "wrong" ELSE "right"

\* The arguments _validate_past_prediction may get.
OldSolPrices == {0, 100}
NewSolPrices == {95, 97, 98, 100, 102, 103, 105}
NewDotPrices == {95, 98, 100, 105}
SolSentiments == {"bullish", "bearish", "neutral", "volatile", "recovering"}
DotSentiments == {"bullish", "bearish", "neutral"}
ValidatedPredictions ==
    {Prediction(StartTime, "analysis",
                [c \in {"SOL", "DOT"} |-> IF c = "SOL" THEN sp ELSE 100],
                [c \in {"SOL", "DOT"} |-> IF c = "SOL" THEN ss ELSE ds], None) :
        sp \in OldSolPrices, ss \in SolSentiments, ds \in DotSentiments}
    \cup {Prediction(StartTime, "analysis", [c \in {"SOL"} |-> sp],
                     [c \in {"SOL"} |-> ss], None) :
            sp \in OldSolPrices, ss \in SolSentiments}
ValidationPrices ==
    {[c \in {"SOL", "DOT"} |-> IF c = "SOL" THEN sp ELSE dp] :
        sp \in NewSolPrices, dp \in NewDotPrices}
    \cup {[c \in {"DOT"} |-> dp] : dp \in NewDotPrices}

\* _validate_past_prediction(prediction, current_prices)
ValidatePastPredictionCall ==
    /\ validate_result = Unset
    /\ validate_result' =
          IF ValidateRaises(validate_args.prediction, validate_args.current_prices)
          THEN Some("raised")
          ELSE Some(ValidatePastPrediction(validate_args.prediction,
                                           validate_args.current_prices))
    /\ UNCHANGED <<now, fetch_vars, start_vars, last_market_data, last_check_time, store_reads,
                   new_data, should_post, trigger_reason, tstate, mood_vars,
                   trend_vars, corr_vars, validate_args, pred_vars, cycle_vars>>

\* The validation called once with any prediction and any current prices.
ValidateInit ==
    /\ now = StartTime
    /\ daily_reset_time = now
    /\ FetchInit
    /\ BotInit
    /\ MoodVarsInit
    /\ TrendVarsInit
    /\ CorrVarsInit
    /\ validate_args \in [prediction : ValidatedPredictions,
                          current_prices : ValidationPrices]
    /\ validate_result = Unset
    /\ PredVarsInit
    /\ CycleVarsInit
    /\ StartVarsInit

ValidateSpec == ValidateInit /\ [][ValidatePastPredictionCall]_vars

PREDICTION_WINDOW == 86400
SecondsPerHour == 3600
CALLBACK_WINDOW == 24 * SecondsPerHour

\* As StillTracked, an entry of exactly 24 hours kept.
StillTrackedInclusive(p, t) == t - p.timestamp <= PREDICTION_WINDOW

\* Line 539: the test an entry passes to stay in the list
StillTracked(p, t) == t - p.timestamp < PREDICTION_WINDOW

\* Lines 530-539: the list after _track_prediction at time t
TrackPrediction(preds, t, text, sentiment, prices) ==
    SelectSeq(Append(preds, Prediction(t, text, prices, sentiment, None)),
              LAMBDA p : StillTracked(p, t))

\* The entries line 538 leaves out
PrunedByTrack(preds, t) == SelectSeq(preds, LAMBDA p : ~StillTracked(p, t))

\* Lines 562-563: the positions of the predictions of the last 24 hours
RecentPredictions(preds, t) ==
    {i \in 1..Len(preds) : preds[i].timestamp > t - CALLBACK_WINDOW}

\* As ValidateRecent, the outcome computed again when it is already set.
RECURSIVE ValidateRecentAgain(_, _, _, _)
ValidateRecentAgain(preds, i, t, prices) ==
    IF i > Len(preds)
    THEN [preds |-> preds, raised |-> FALSE, validated |-> << >>]
    ELSE IF i \in RecentPredictions(preds, t)
         THEN IF ValidateRaises(preds[i], prices)
              THEN [preds |-> preds, raised |-> TRUE, validated |-> << >>]
              ELSE LET rest == ValidateRecentAgain(
                                 [preds EXCEPT ![i].outcome =
                                     ValidatePastPrediction(preds[i], prices)],
                                 i + 1, t, prices)
                   IN  [rest EXCEPT !.validated = << i >> \o rest.validated]
         ELSE ValidateRecentAgain(preds, i + 1, t, prices)

\* Lines 568-570: the loop over the recent predictions from position i on.
\* The dicts are those of past_predictions, so an outcome set before a
\* ZeroDivisionError stays set.
RECURSIVE ValidateRecent(_, _, _, _)
ValidateRecent(preds, i, t, prices) ==
    IF i > Len(preds)
    THEN [preds |-> preds, raised |-> FALSE, validated |-> << >>]
    ELSE IF i \in RecentPredictions(preds, t) /\ preds[i].outcome = None
         THEN IF ValidateRaises(preds[i], prices)
              THEN [preds |-> preds, raised |-> TRUE, validated |-> << >>]
              ELSE LET rest == ValidateRecent(
                                 [preds EXCEPT ![i].outcome =
                                     ValidatePastPrediction(preds[i], prices)],
                                 i + 1, t, prices)
                   IN  [rest EXCEPT !.validated = << i >> \o rest.validated]
         ELSE ValidateRecent(preds, i + 1, t, prices)

\* Line 572
WrongPredictions(preds, t) ==
    {i \in RecentPredictions(preds, t) : preds[i].outcome = "wrong"}

\* As WorstPrediction, the first of the wrong predictions taken.
WorstPredictionFirst(wrong) == CHOOSE i \in wrong : \A j \in wrong : i <= j

\* Line 574: wrong_predictions[-1]
WorstPrediction(wrong) == CHOOSE i \in wrong : \A j \in wrong : i >= j

\* The three texts of lines 577-581
CallbackTemplates == {"galaxy_brain_take", "aged_like_milk", "awkward_moment"}

\* Lines 572-584: None, or the text: a template filled with the age in whole
\* hours and the text of the prediction
SpicyCallback(preds, t, template) ==
    LET wrong == WrongPredictions(preds, t)
    IN  IF wrong = {} THEN Unset
        ELSE LET worst_pred == preds[WorstPrediction(wrong)]
             IN  Some([template |-> template,
                       time_ago |-> (t - worst_pred.timestamp) \div SecondsPerHour,
                       prediction |-> worst_pred.prediction])

MaxTracked == 2         \* the list is watched while it holds this many entries

\* _track_prediction(prediction, relevant_chains): what the call does to the
\* list; text is prediction['analysis'].
TrackPredictionBody(text, sentiment, prices) ==
    /\ past_predictions' =
          TrackPrediction(past_predictions, now, text, sentiment, prices)
    /\ pruned' = PrunedByTrack(past_predictions, now)
    /\ recorded_in' =
          SelectSeq(Append(recorded_in, [timestamp |-> now, cycle |-> cycle]),
                    LAMBDA r : StillTracked(r, now))
    /\ pstate' = "tracked"
    /\ UNCHANGED <<current_prices, callback, validated>>

\* _track_prediction called on its own
TrackPredictionCall(text, sentiment, prices) ==
    /\ Len(TrackPrediction(past_predictions, now, text, sentiment, prices))
          <= MaxTracked
    /\ TrackPredictionBody(text, sentiment, prices)
    /\ UNCHANGED <<now, fetch_vars, start_vars, last_market_data, last_check_time, store_reads,
                   new_data, should_post, trigger_reason, tstate, mood_vars,
                   trend_vars, corr_vars, validate_vars, cycle_vars>>

\* _get_spicy_callback(current_prices): what the call does to the list and
\* what it returns; template is the one line 582 picks from the hash of the
\* current instant.
GetSpicyCallbackBody(prices, template) ==
    /\ current_prices' = prices
    /\ IF RecentPredictions(past_predictions, now) = {}
       THEN \* lines 565-566
            /\ callback' = Unset
            /\ pstate' = "returned"
            /\ validated' = << >>
            /\ UNCHANGED past_predictions
       ELSE LET v == ValidateRecent(past_predictions, 1, now, prices)
            IN  /\ past_predictions' = v.preds
                /\ validated' = v.validated
                /\ IF v.raised
                   THEN pstate' = "raised" /\ UNCHANGED callback
                   ELSE /\ pstate' = "returned"
                        /\ callback' = SpicyCallback(v.preds, now, template)
    /\ UNCHANGED <<pruned, recorded_in>>

\* _get_spicy_callback called on its own
GetSpicyCallback(prices, template) ==
    /\ GetSpicyCallbackBody(prices, template)
    /\ UNCHANGED <<now, fetch_vars, start_vars, last_market_data, last_check_time, store_reads,
                   new_data, should_post, trigger_reason, tstate, mood_vars,
                   trend_vars, corr_vars, validate_vars, cycle_vars>>

\* The instants at which the tracker is used.
TrackerInstants == {StartTime + d : d \in {1, 86400, 86401}}

\* Time passes between two operations.
Tick(t) ==
    /\ t > now
    /\ now' = t
    /\ UNCHANGED <<fetch_vars, bot_vars>>

\* What the tracker is given: the text of an analysis, the price of each chain
\* and its mood.
Narratives == {"take_a", "take_b"}
TrackedPrices == {[c \in {"SOL", "DOT"} |-> IF c = "SOL" THEN sp ELSE 100] :
                    sp \in OldSolPrices}
TrackedSentiments == {[c \in {"SOL", "DOT"} |-> IF c = "SOL" THEN ss ELSE "neutral"] :
                        ss \in {"bullish", "neutral"}}
CallbackPrices == {[c \in {"SOL", "DOT"} |-> IF c = "SOL" THEN sp ELSE 100] :
                     sp \in {95, 98}}

\* Any sequence of record and callback operations.
TrackerNext ==
    \/ \E a \in Narratives, ss \in TrackedSentiments, pr \in TrackedPrices :
            TrackPredictionCall(a, ss, pr)
    \/ \E pr \in CallbackPrices, k \in CallbackTemplates : GetSpicyCallback(pr, k)
    \/ \E t \in TrackerInstants : Tick(t)

TrackerSpec == Init /\ [][TrackerNext]_vars

MAX_PREDICTIONS == 20   \* line 527: assigned and never read

MaxRecorded == 21       \* the records followed within one 24 hour window

\* The instants of the records: all within one hour of the start.
RecordInstants == {StartTime + d : d \in {1, SecondsPerHour}}

\* _track_prediction called again and again: lines 530-539 have no test on
\* the length of the list.
TrackPredictionRepeated(text, sentiment, prices) ==
    /\ Len(past_predictions) < MaxRecorded
    /\ TrackPredictionBody(text, sentiment, prices)
    /\ UNCHANGED <<now, fetch_vars, start_vars, last_market_data, last_check_time, store_reads,
                   new_data, should_post, trigger_reason, tstate, mood_vars,
                   trend_vars, corr_vars, validate_vars, cycle_vars>>

\* Records of one narrative within a 24 hour window.
RecordNext ==
    \/ TrackPredictionRepeated("take_a",
                               [c \in {"SOL", "DOT"} |-> "neutral"],
                               [c \in {"SOL", "DOT"} |-> 100])
    \/ \E t \in RecordInstants : Tick(t)

RecordSpec == Init /\ [][RecordNext]_vars

(***************************************************************************)
(* _run_analysis_cycle (bot.py) and the loop of start() around it.  A      *)
(* cycle is a sequence of steps of the one thread; cycle_pc is its         *)
(* position.  get_market_data, the narrative generator, the Store and the  *)
(* publisher answer as the environment chooses.  The rows an attempt       *)
(* writes to the Store's correlation and mood tables are not followed.     *)
(***************************************************************************)
\* Lines 284-290: the keys read with coin[...]
RequiredCoinFields == {"symbol", "current_price", "total_volume",
                       "price_change_percentage_24h", "market_cap",
                       "market_cap_rank"}

\* Line 284: coin['symbol'].upper()
Upper(symbol) == CASE symbol = "sol" -> "SOL" [] symbol = "dot" -> "DOT"

\* A coin object of the response
Coin(symbol, price, change) ==
    [symbol |-> symbol, current_price |-> price, total_volume |-> 1000,
     price_change_percentage_24h |-> change, market_cap |-> 2,
     market_cap_rank |-> 5]

Without(coin, field) == [k \in DOMAIN coin \ {field} |-> coin[k]]

\* What get_market_data can return: nothing, both coins, SOL alone, or both
\* with one required key absent from DOT's object.
ApiResponses ==
    {<< >>, << Coin("sol", 100, 6) >>}
    \cup {<< Coin("sol", sp, 6), Coin("dot", 100, 0) >> : sp \in {100, 95}}
    \cup {<< Coin("sol", 0, 0), Coin("dot", 100, 0) >>}
    \cup {<< Coin("sol", 100, 6), Without(Coin("dot", 100, 0), f) >> :
            f \in RequiredCoinFields}

\* Lines 283-297 raise KeyError when a coin lacks a key read with [...]
FormatRaises(data) ==
    \E i \in 1..Len(data) : ~(RequiredCoinFields \subseteq DOMAIN data[i])

\* Lines 283-297: formatted_data, keyed by the upper-case symbol (a later
\* coin of the same symbol replaces an earlier one)
FormattedData(data) ==
    [c \in {Upper(data[i].symbol) : i \in 1..Len(data)} |->
        LET last == CHOOSE i \in 1..Len(data) :
                        /\ Upper(data[i].symbol) = c
                        /\ \A j \in 1..Len(data) : Upper(data[j].symbol) = c => j <= i
        IN  [current_price |-> data[last].current_price,
             volume |-> data[last].total_volume,
             price_change_percentage_24h |-> data[last].price_change_percentage_24h,
             market_cap |-> data[last].market_cap,
             market_cap_rank |-> data[last].market_cap_rank]]

\* Line 310
MissingChains(formatted) ==
    {TargetChains[i] : i \in 1..Len(TargetChains)} \ DOMAIN formatted

\* As CryptoData, without the check of lines 310-313.
CryptoDataUnchecked(data) ==
    IF data = << >> \/ FormatRaises(data) THEN Unset
    ELSE Some(FormattedData(data))

\* _get_crypto_data: None (Unset) or the formatted data
CryptoData(data) ==
    IF data = << >> \/ FormatRaises(data) THEN Unset
    ELSE IF MissingChains(FormattedData(data)) # {} THEN Unset
    ELSE Some(FormattedData(data))

\* Lines 307-308: the chains store_market_data is called for, in dict order
RECURSIVE StoredChains(_, _)
StoredChains(data, i) ==
    IF data = << >> \/ FormatRaises(data) \/ i > Len(data) THEN << >>
    ELSE (IF \E j \in 1..(i - 1) : data[j].symbol = data[i].symbol
          THEN << >> ELSE << Upper(data[i].symbol) >>)
         \o StoredChains(data, i + 1)

\* Lines 601-603
AfterFetch(cd) == IF cd = Unset THEN "done" ELSE "decide"

\* As AfterDecide, the analysis started whatever was decided.
AfterDecideAlwaysAnalyze(raised, post) == IF raised THEN "done" ELSE "analyze"

\* Lines 605-623 and 625: a ZeroDivisionError of _should_post_update is
\* caught by the cycle, which ends; the analysis starts when should_post
AfterDecide(raised, post) ==
    IF raised THEN "done" ELSE IF post THEN "analyze" ELSE "done"

analysis_max_retries == 3

\* Lines 371 and 522-523: another attempt, or None returned to the cycle,
\* which ends (610-612)
AfterAttempt(rc) == IF rc < analysis_max_retries THEN "analyze" ELSE "done"

\* As AnalysisWait, the same 10 s after every failure.
AnalysisWaitFlat(rc) == 10

\* Line 516: wait_time = retry_count * 10
AnalysisWait(rc) == rc * 10

\* Lines 377-378 and 490: the current price of each chain
CurrentPrices(cd) == [c \in DOMAIN cd |-> cd[c].current_price]

VolumeUnit == 100000000

\* As BotIndicators, the volatility not divided by 100.
BotIndicatorsPercent(d) ==
    MoodIndicators(d.price_change_percentage_24h, d.volume \div VolumeUnit,
                   Abs(d.price_change_percentage_24h) * 100, Unset, Unset, Unset)

\* Lines 387-394: the indicators built for a chain: the volatility is
\* abs(change) / 100, in hundredths abs(change); the model's volumes are
\* whole multiples of 1e8 or far below it
BotIndicators(d) ==
    MoodIndicators(d.price_change_percentage_24h, d.volume \div VolumeUnit,
                   Abs(d.price_change_percentage_24h), Unset, Unset, Unset)

\* Lines 396-398 and 489: the mood of each chain
Sentiments(cd) == [c \in DOMAIN cd |-> MaxMood(MoodScores(BotIndicators(cd[c])))]

MaxBotChange == 12      \* the 24 h price change is within this many percent

\* The snapshots of a chain the bot classifies: any change within the
\* bound, a volume below, at and above the high-volume threshold of 1.5e9.
BotSnapshots ==
    {[price_change_percentage_24h |-> c, volume |-> v] :
        c \in (0 - MaxBotChange)..MaxBotChange,
        v \in {1000, 15 * VolumeUnit, 16 * VolumeUnit}}

\* The classifier called once with indicators built by the bot.
BotMoodInit ==
    /\ now = StartTime
    /\ daily_reset_time = now
    /\ FetchInit
    /\ BotInit
    /\ indicators \in {BotIndicators(d) : d \in BotSnapshots}
    /\ mood_scores = ZeroScores
    /\ mood = None
    /\ TrendVarsInit
    /\ CorrVarsInit
    /\ TrackerVarsInit
    /\ StartVarsInit

BotMoodSpec == BotMoodInit /\ [][DetermineAdvancedMood]_vars

\* Lines 586-595, for a text short enough not to be cut
FormatTweetAnalysis(text) == << text, "#SOL #DOT #Layer1 #L1Analysis" >>

SIMILARITY_WINDOW == 3600

\* database.py check_content_similarity: the same content among the rows of
\* the last hour
SimilarContent(tweet, rows, t) ==
    \E k \in 1..Len(rows) :
        rows[k].content = tweet /\ rows[k].timestamp >= t - SIMILARITY_WINDOW

\* What check_content_similarity can do: answer by the table, fail in its
\* query and return False, or raise before its own try (no connection).
CheckOutcomes == {"answered", "query_failed", "no_connection"}

\* What _get_last_posts can do: list the texts on the profile page, or fail
\* and return [].
ListingOutcomes == {"listed", "failed"}

\* Lines 628-641
LastPosts(listing) ==
    IF listing = "listed" THEN [k \in 1..Len(posted) |-> posted[k].tweet] ELSE << >>

\* As IsDuplicateAnalysis, without the Store's check of lines 647-649.
IsDuplicateOfLastPosts(tweet, check, last_posts) ==
    \E k \in 1..Len(last_posts) : last_posts[k] = tweet

\* _is_duplicate_analysis(new_tweet, last_posts): what the Store's check
\* raises is caught and answered with False
IsDuplicateAnalysis(tweet, check, last_posts) ==
    /\ check # "no_connection"
    /\ \/ check = "answered" /\ SimilarContent(tweet, posted_content, now)
       \/ \E k \in 1..Len(last_posts) : last_posts[k] = tweet

\* Lines 307-308 and 318-320: store_market_data raises before its own try
\* when there is no connection, and _get_crypto_data's except returns None
StoreMarketDataRaises(data, store) ==
    store = "no_connection" /\ data # << >> /\ ~FormatRaises(data)

\* _get_crypto_data(), get_market_data returning data after d seconds and
\* the Store doing store with the rows
GetCryptoData(data, store, d) ==
    /\ start_pc = "running"
    /\ cycle_pc = "fetch"
    /\ now' = now + d
    /\ api_data' = data
    /\ crypto_data' = IF StoreMarketDataRaises(data, store) THEN Unset
                      ELSE CryptoData(data)
    /\ market_rows' = IF store = "stored" THEN StoredChains(data, 1) ELSE << >>
    /\ cycle_pc' = AfterFetch(crypto_data')
    /\ UNCHANGED <<fetch_vars, start_vars, last_market_data, last_check_time, store_reads,
                   new_data, should_post, trigger_reason, tstate, mood_vars,
                   trend_vars, corr_vars, validate_vars, pred_vars, cycle,
                   analysis_retry, narrative, analysis, posted_content, posted,
                   dup_check>>

\* Line 605: _should_post_update(market_data)
CycleDecide(hist) ==
    /\ start_pc = "running"
    /\ cycle_pc = "decide"
    /\ ShouldPostUpdateBody(crypto_data[1], hist)
    /\ cycle_pc' = AfterDecide(tstate' = "raised", should_post')
    /\ UNCHANGED <<now, fetch_vars, start_vars, last_check_time, mood_vars, trend_vars,
                   corr_vars, validate_vars, pred_vars, cycle, api_data,
                   crypto_data, market_rows, analysis_retry, narrative, analysis,
                   posted_content, posted,
                   dup_check>>

\* Lines 514-520: the except of an attempt
RetryAfterError ==
    /\ analysis_retry' = analysis_retry + 1
    /\ now' = now + AnalysisWait(analysis_retry')
    /\ cycle_pc' = AfterAttempt(analysis_retry')

\* Lines 371-378: an attempt starts; the callback is asked for
AttemptCallback(template) ==
    /\ start_pc = "running"
    /\ cycle_pc = "analyze"
    /\ GetSpicyCallbackBody(CurrentPrices(crypto_data[1]), template)
    /\ IF pstate' = "raised"
       THEN RetryAfterError
       ELSE cycle_pc' = "generate" /\ UNCHANGED <<now, analysis_retry>>
    /\ UNCHANGED <<fetch_vars, start_vars, last_market_data, last_check_time, store_reads,
                   new_data, should_post, trigger_reason, tstate, mood_vars,
                   trend_vars, corr_vars, validate_vars, cycle, api_data,
                   crypto_data, market_rows, narrative, analysis, posted_content,
                   posted,
                   dup_check>>

\* Lines 380-492: the prompt is built and the narrative asked for; text is
\* None when any of this raises, else the text, which is tracked
AttemptGenerate(text) ==
    /\ start_pc = "running"
    /\ cycle_pc = "generate"
    /\ IF text = None
       THEN RetryAfterError /\ UNCHANGED <<narrative, pred_vars>>
       ELSE /\ narrative' = text
            /\ TrackPredictionBody(text, Sentiments(crypto_data[1]),
                                   CurrentPrices(crypto_data[1]))
            /\ cycle_pc' = "similarity"
            /\ UNCHANGED <<now, analysis_retry>>
    /\ UNCHANGED <<fetch_vars, start_vars, last_market_data, last_check_time, store_reads,
                   new_data, should_post, trigger_reason, tstate, mood_vars,
                   trend_vars, corr_vars, validate_vars, cycle, api_data,
                   crypto_data, market_rows, analysis, posted_content, posted,
                   dup_check>>

\* Lines 494-512: similar content makes the attempt start over; otherwise
\* the content is stored and returned.  The Store raising in the check or in
\* the insert is an error of the attempt.
AttemptSimilarity(check, store) ==
    /\ start_pc = "running"
    /\ cycle_pc = "similarity"
    /\ LET tweet == FormatTweetAnalysis(narrative)
       IN  IF check = "answered" /\ SimilarContent(tweet, posted_content, now)
           THEN /\ analysis_retry' = analysis_retry + 1
                /\ cycle_pc' = AfterAttempt(analysis_retry')
                /\ UNCHANGED <<now, analysis, posted_content>>
           ELSE IF check = "no_connection" \/ store = "no_connection"
           THEN RetryAfterError /\ UNCHANGED <<analysis, posted_content>>
           ELSE /\ posted_content' =
                      IF store = "stored"
                      THEN Append(posted_content,
                                  [content |-> tweet, timestamp |-> now])
                      ELSE posted_content
                /\ analysis' = Some(tweet)
                /\ cycle_pc' = "check_duplicate"
                /\ UNCHANGED <<now, analysis_retry>>
    /\ UNCHANGED <<fetch_vars, start_vars, last_market_data, last_check_time, store_reads,
                   new_data, should_post, trigger_reason, tstate, mood_vars,
                   trend_vars, corr_vars, validate_vars, pred_vars, cycle,
                   api_data, crypto_data, market_rows, narrative, posted,
                   dup_check>>

\* Lines 614-621: _get_last_posts and _is_duplicate_analysis
CheckDuplicate(check, listing) ==
    /\ start_pc = "running"
    /\ cycle_pc = "check_duplicate"
    /\ dup_check' = check
    /\ cycle_pc' = IF IsDuplicateAnalysis(analysis[1], check, LastPosts(listing))
                   THEN "done" ELSE "post"
    /\ UNCHANGED <<now, fetch_vars, start_vars, last_market_data, last_check_time, store_reads,
                   new_data, should_post, trigger_reason, tstate, mood_vars,
                   trend_vars, corr_vars, validate_vars, pred_vars, cycle,
                   api_data, crypto_data, market_rows, analysis_retry, narrative,
                   analysis, posted_content, posted>>

\* Lines 616-619: _post_analysis(analysis) returns ok
PostAnalysis(ok) ==
    /\ start_pc = "running"
    /\ cycle_pc = "post"
    /\ posted' = IF ok THEN Append(posted, [tweet |-> analysis[1], cycle |-> cycle])
                 ELSE posted
    /\ cycle_pc' = "done"
    /\ UNCHANGED <<now, fetch_vars, start_vars, last_market_data, last_check_time, store_reads,
                   new_data, should_post, trigger_reason, tstate, mood_vars,
                   trend_vars, corr_vars, validate_vars, pred_vars, cycle,
                   api_data, crypto_data, market_rows, analysis_retry, narrative,
                   analysis, posted_content,
                   dup_check>>

MaxCycles == 2          \* the bot is watched for this many cycles

\* As CheckTimeAfterSleep, the time of the last check kept.
CheckTimeKept(t, check_time) == check_time

\* Line 173: self.last_check_time = datetime.now()
CheckTimeAfterSleep(t, check_time) == t

\* start(), lines 164-173: the cycle has returned; sleep until the next
\* check, then the next cycle with its locals fresh
CycleSleep ==
    /\ start_pc = "running"
    /\ cycle_pc = "done"
    /\ cycle < MaxCycles
    /\ now' = now + Max(0, BASE_INTERVAL - (now - last_check_time))
    /\ last_check_time' = CheckTimeAfterSleep(now', last_check_time)
    /\ cycle' = cycle + 1
    /\ cycle_pc' = "fetch"
    /\ api_data' = << >>
    /\ crypto_data' = Unset
    /\ market_rows' = << >>
    /\ analysis_retry' = 0
    /\ narrative' = None
    /\ analysis' = Unset
    /\ dup_check' = None
    /\ UNCHANGED <<fetch_vars, start_vars, last_market_data, store_reads, new_data, should_post,
                   trigger_reason, tstate, mood_vars, trend_vars, corr_vars,
                   validate_vars, pred_vars, posted_content, posted>>

\* get_market_data answering from its cache takes no time on the model's
\* clock of whole seconds.
CachedFetchTime == 0

\* What the Store's volume history can be when the cycle asks for it.
CycleHistories ==
    {[c \in {"SOL", "DOT"} |-> << >>], [c \in {"SOL", "DOT"} |-> << 1000, 800 >>]}

CycleNext ==
    \/ \E data \in ApiResponses, store \in StoreOutcomes :
            GetCryptoData(data, store, CachedFetchTime)
    \/ \E hist \in CycleHistories : CycleDecide(hist)
    \/ \E k \in CallbackTemplates : AttemptCallback(k)
    \/ \E text \in Narratives \cup {None} : AttemptGenerate(text)
    \/ \E check \in CheckOutcomes, store \in StoreOutcomes :
            AttemptSimilarity(check, store)
    \/ \E check \in CheckOutcomes, listing \in ListingOutcomes :
            CheckDuplicate(check, listing)
    \/ \E ok \in BOOLEAN : PostAnalysis(ok)
    \/ CycleSleep

CycleSpec == Init /\ [][CycleNext]_vars

(***************************************************************************)
(* start() (bot.py): the setup loop, the main loop around the cycle, the   *)
(* two handlers and the finally clause.  A KeyboardInterrupt can arrive    *)
(* between any two steps.  Here the fetch takes time, and the inputs are   *)
(* fewer than in CycleSpec.                                                *)
(***************************************************************************)
max_setup_retries == 3

\* What one pass of the setup loop can meet: both steps succeed,
\* initialize_driver returns False, _login_to_twitter returns False, or
\* initialize_driver raises.
SetupOutcomes == {"ready", "driver_failed", "login_failed", "raised"}

\* Lines 146 and 152: the sleep after a failed step
SetupWait(outcome) == IF outcome = "driver_failed" THEN 10 ELSE 15

\* Lines 142 and 157-158: another pass, or the exception of line 158, which
\* the handler of line 182 catches
AfterSetupFailure(rc) == IF rc < max_setup_retries THEN "setup" ELSE "stopping"

\* Lines 142-158: one pass of the setup loop
SetupAttempt(outcome) ==
    /\ start_pc = "setup"
    /\ CASE outcome = "ready" ->
              /\ start_pc' = "running"
              /\ UNCHANGED <<now, setup_retry, ended_by>>
         [] outcome = "raised" ->
              /\ start_pc' = "stopping"
              /\ ended_by' = "exception"
              /\ UNCHANGED <<now, setup_retry>>
         [] OTHER ->
              /\ setup_retry' = setup_retry + 1
              /\ now' = now + SetupWait(outcome)
              /\ start_pc' = AfterSetupFailure(setup_retry')
              /\ ended_by' = IF start_pc' = "stopping" THEN "setup_exhausted"
                             ELSE ended_by
    /\ UNCHANGED <<cleanup_runs, fetch_vars, last_market_data, last_check_time,
                   store_reads, new_data, should_post, trigger_reason, tstate,
                   mood_vars, trend_vars, corr_vars, tracker_vars>>

\* Lines 180-181: the user interrupts the setup, a cycle or a sleep
KeyboardInterrupt ==
    /\ start_pc \in {"setup", "running"}
    /\ start_pc' = "stopping"
    /\ ended_by' = "interrupt"
    /\ UNCHANGED <<now, setup_retry, cleanup_runs, fetch_vars, last_market_data,
                   last_check_time, store_reads, new_data, should_post,
                   trigger_reason, tstate, mood_vars, trend_vars, corr_vars,
                   tracker_vars>>

\* As AfterCleanup, the finally clause entered again after a clean run.
AfterCleanupAgain(interrupted) == IF interrupted THEN "raised" ELSE "stopping"

\* Lines 184-185 and 796-812: _cleanup catches every Exception; a
\* KeyboardInterrupt inside it leaves start() by raising
AfterCleanup(interrupted) == IF interrupted THEN "raised" ELSE "returned"

\* Lines 184-185: the finally clause runs _cleanup
Cleanup(interrupted) ==
    /\ start_pc = "stopping"
    /\ cleanup_runs' = cleanup_runs + 1
    /\ start_pc' = AfterCleanup(interrupted)
    /\ UNCHANGED <<now, setup_retry, ended_by, fetch_vars, last_market_data,
                   last_check_time, store_reads, new_data, should_post,
                   trigger_reason, tstate, mood_vars, trend_vars, corr_vars,
                   tracker_vars>>

\* What get_market_data returns in the runs of start(): nothing, both coins
\* (SOL at 100 or 95), or both with SOL's price or volume 0.
RunResponses ==
    {<< >>,
     << Coin("sol", 100, 6), Coin("dot", 100, 0) >>,
     << Coin("sol", 95, 6), Coin("dot", 100, 0) >>,
     << Coin("sol", 0, 0), Coin("dot", 100, 0) >>,
     << [Coin("sol", 100, 6) EXCEPT !.total_volume = 0], Coin("dot", 100, 0) >>}

\* How long _get_crypto_data takes: a second, or as long as BASE_INTERVAL
\* (rate-limit waits and backoff inside get_market_data).
RunFetchTimes == {1, BASE_INTERVAL}

\* The Store has no volume history in these runs.
RunHistories == {[c \in {"SOL", "DOT"} |-> << >>]}

StartInit ==
    /\ now = StartTime
    /\ daily_reset_time = now
    /\ FetchInit
    /\ BotInit
    /\ MoodVarsInit
    /\ TrendVarsInit
    /\ CorrVarsInit
    /\ TrackerVarsInit
    /\ start_pc = "setup"
    /\ setup_retry = 0
    /\ ended_by = None
    /\ cleanup_runs = 0

StartNext ==
    \/ \E outcome \in SetupOutcomes : SetupAttempt(outcome)
    \/ \E data \in RunResponses, d \in RunFetchTimes : GetCryptoData(data, "stored", d)
    \/ \E hist \in RunHistories : CycleDecide(hist)
    \/ AttemptCallback("aged_like_milk")
    \/ \E text \in {"take_a", None} : AttemptGenerate(text)
    \/ \E store \in {"stored", "write_failed"} : AttemptSimilarity("answered", store)
    \/ \E check \in CheckOutcomes : CheckDuplicate(check, "listed")
    \/ \E ok \in BOOLEAN : PostAnalysis(ok)
    \/ CycleSleep
    \/ KeyboardInterrupt
    \/ \E interrupted \in BOOLEAN : Cleanup(interrupted)

StartSpec == StartInit /\ [][StartNext]_vars

(***************************************************************************)
(* Properties of the fetcher.                                              *)
(***************************************************************************)
\* Two params dicts are the same dict whatever their insertion order.
SameDict(p, q) == {p[i] : i \in DOMAIN p} = {q[i] : i \in DOMAIN q}

\* C1: a call whose params are, as a dict, those of the last call answered
\* with 200 issues no request while less than cache_duration has passed since
\* that answer was cached (so the two calls cost the one request of the
\* first), and goes to the network again once cache_duration has passed: the
\* only step it can then take sends a request.
C1_CacheCorrectness ==
    [][ /\ (pc = "idle" /\ now' = now /\ last_ok # << >>
               /\ SameDict(params', last_ok[1].params))
            => IF now - last_ok[1].time < cache_duration
               THEN /\ pc' = "idle"
                    /\ issued' = 0
                    /\ daily_requests' = daily_requests
                    /\ last_request_time' = last_request_time
                    /\ result' \in Payloads
               ELSE /\ pc' = "loop"
                    /\ retry_count' = 0
        /\ (pc = "sent" /\ retry_count = 0 /\ response'.status = "ok")
            => (issued' = 1 /\ pc' = "idle")
        /\ (pc = "loop" /\ retry_count = 0) => pc' = "ready"
        /\ (pc = "ready")
            => (pc' = "sent" /\ issued' = issued + 1
                    /\ daily_requests' = daily_requests + 1) ]_vars

\* A call with the other insertion order was served from the cache 59 s
\* after the answer it reuses.
C1_Witness ==
    /\ pc = "idle"
    /\ last_ok # << >>
    /\ params # last_ok[1].params
    /\ result \in Payloads
    /\ issued = 0
    /\ now - last_ok[1].time = cache_duration - 1

\* C2: whenever a call returns data from the cache, the entry it returns is
\* younger than cache_duration (strictly) at that moment; a call that finds
\* an entry aged cache_duration or more is a miss and returns nothing from it.
C2_OnlyFreshEntriesServed ==
    [][ (pc = "idle" /\ now' = now)
            => LET key == cache_key'
               IN  /\ pc' = "idle"
                        => /\ key \in DOMAIN cache
                           /\ now - cache[key].timestamp < cache_duration
                           /\ result' = cache[key].data
                   /\ (key \in DOMAIN cache
                            /\ now - cache[key].timestamp >= cache_duration)
                        => (pc' = "loop" /\ result' \notin Payloads) ]_vars

\* A call found its entry aged exactly cache_duration and went to the network.
C2_Witness ==
    /\ pc = "loop"
    /\ retry_count = 0
    /\ cache_key \in DOMAIN cache
    /\ now - cache[cache_key].timestamp = cache_duration

\* C3: whenever a request goes out, at least min_request_interval has passed
\* since the recorded time of the request before it.
C3_RateLimit ==
    [][ last_request_time' # last_request_time
            => last_request_time' - last_request_time >= min_request_interval ]_vars

\* A retry went out after a 429 whose wait was a single second.
C3_Witness ==
    /\ pc = "sent"
    /\ retry_count = 1
    /\ issued = 2
    /\ wait_time = 1

\* C4: a call issues at most max_retries requests; a 429, another status and
\* a timeout each use up one retry of the same counter; when the retries are
\* used up the call returns None; and every call ends.
C4_BoundedRetries ==
    /\ [](issued <= max_retries /\ retry_count <= max_retries)
    /\ [][ /\ (pc = "sent" /\ pc' = "loop")
               => /\ retry_count' = retry_count + 1
                  /\ response'.status \in {"rate_limited", "http_error", "timeout"}
           /\ (pc = "sent" /\ response'.status \in {"rate_limited", "http_error", "timeout"})
               => (pc' = "loop" /\ retry_count' = retry_count + 1)
           /\ (pc = "loop" /\ pc' = "idle")
               => /\ retry_count = max_retries
                  /\ issued = max_retries
                  /\ result' = None ]_vars
    /\ (pc # "idle" ~> pc = "idle")

\* A call gave up after max_retries requests.
C4_Witness ==
    /\ pc = "idle"
    /\ result = None
    /\ issued = max_retries
    /\ retry_count = max_retries

\* C5 (as claimed): after a 429 the failure is counted, the call waits until
\* the reset time of the header plus one second when the header is there, and
\* waits the default 60 s when the response has no rate-limit headers.
C5_RateLimitWaitAsClaimed ==
    [][ (pc = "sent" /\ response'.status = "rate_limited")
            => /\ failed_requests' = failed_requests + 1
               /\ response'.headers = "valid"
                    => now' >= rate_limit_reset_at'[1] + 1
               /\ response'.headers = "absent"
                    => (wait_time' = default_wait_time
                            /\ now' >= now + default_wait_time) ]_vars

\* C6: another status or a timeout counts one failure, uses one retry and
\* waits 5, 10, 20 s: base_wait doubled for every retry already used.
C6_ExponentialBackoff ==
    [][ (pc = "sent" /\ response'.status \in {"http_error", "timeout"})
            => /\ failed_requests' = failed_requests + 1
               /\ retry_count' = retry_count + 1
               /\ pc' = "loop"
               /\ wait_time' = (IF retry_count = 0 THEN base_wait
                                ELSE IF retry_count = 1 THEN 2 * base_wait
                                ELSE 4 * base_wait)
               /\ now' >= now + wait_time' ]_vars

\* The third failure in a row was a timeout and the call waited 20 s.
C6_Witness ==
    /\ pc = "loop"
    /\ response.status = "timeout"
    /\ retry_count = 3
    /\ wait_time = 4 * base_wait
    /\ failed_requests >= 3

\* C7 (as claimed): expired entries are purged, so that when a call that went
\* to the network returns, cache_size counts no entry older than
\* cache_duration.
C7_ExpiredEntriesPurged ==
    (pc = "idle" /\ response.status # "none")
        => RequestStats.cache_size =
              Cardinality({k \in DOMAIN cache :
                              now - cache[k].timestamp <= cache_duration})

\* C8: the step before a request resets both counters and sets
\* daily_reset_time to now exactly when a full day has passed since
\* daily_reset_time; nothing else resets them or moves daily_reset_time.
C8_DailyReset ==
    [][ IF pc = "loop" /\ pc' = "ready"
        THEN IF now' - daily_reset_time >= SecondsPerDay
             THEN /\ daily_requests' = 0
                  /\ failed_requests' = 0
                  /\ daily_reset_time' = now'
             ELSE UNCHANGED <<daily_requests, failed_requests, daily_reset_time>>
        ELSE /\ daily_reset_time' = daily_reset_time
             /\ daily_requests' >= daily_requests
             /\ failed_requests' >= failed_requests ]_vars

\* A retry found the day over: the request and the failure this call had
\* already counted were reset.
C8_Witness ==
    /\ pc = "ready"
    /\ issued >= 1
    /\ retry_count >= 1
    /\ daily_requests = 0
    /\ failed_requests = 0
    /\ daily_reset_time = now

(***************************************************************************)
(* Properties of the trigger engine.                                       *)
(***************************************************************************)
\* C9: a call that returns should_post = True leaves last_market_data equal
\* to its new_data; anything else (a call returning False, a call that
\* raises, time passing) leaves last_market_data as it was.
C9_BaselineFollowsPosts ==
    [][ IF tstate' = "returned" /\ should_post'
        THEN last_market_data' = new_data'
        ELSE last_market_data' = last_market_data ]_vars

\* A no-post call with a snapshot other than the baseline left the baseline.
C9_Witness ==
    /\ tstate = "returned"
    /\ ~should_post
    /\ last_market_data # << >>
    /\ last_market_data # new_data

\* C10: a call that returned has should_post = True exactly when its reason
\* is a non-empty string, and should_post = False only with reason None.
C10_PostIffReason ==
    tstate = "returned"
        => /\ should_post <=> (trigger_reason # None /\ trigger_reason # "")
           /\ ~should_post => trigger_reason = None

\* A post decided by the regular interval alone.
C10_Witness ==
    /\ tstate = "returned"
    /\ should_post
    /\ trigger_reason = "regular_interval"

\* A step that is a call of _should_post_update: no time passes in it.
IsTriggerCall == now' = now /\ last_check_time' = last_check_time

\* |new - base| / base * 100 >= threshold, on exact fractions (base > 0)
PercentMoveAtLeast(new, base, threshold) ==
    (IF new >= base THEN new - base ELSE base - new) * 100 >= threshold * base

\* The history read gives a rolling-window change of at least the trend
\* threshold, upwards or downwards.
SignificantTrend(volume, volumes) ==
    LET total == SumSeq(volumes)
        diff == volume * Len(volumes) - total
    IN  /\ volumes # << >>
        /\ total > 0
        /\ \/ diff * 100 >= VOLUME_TREND_THRESHOLD * total
           \/ diff * 100 <= (0 - VOLUME_TREND_THRESHOLD) * total

TrendDirection(volume, volumes) ==
    IF volume * Len(volumes) >= SumSeq(volumes)
    THEN "significant_increase" ELSE "significant_decrease"

\* The first of the six checks, in the order SOL price, SOL volume, SOL trend,
\* DOT price, DOT volume, DOT trend, that fires for the snapshot nd against
\* the baseline last and the histories read; 0 when none fires.
FirstFiringCheck(nd, last, reads) ==
    IF PercentMoveAtLeast(nd["SOL"].current_price, last["SOL"].current_price,
                          PRICE_CHANGE_THRESHOLD) THEN 1
    ELSE IF PercentMoveAtLeast(nd["SOL"].volume, last["SOL"].volume,
                               VOLUME_CHANGE_THRESHOLD) THEN 2
    ELSE IF Len(reads) >= 1 /\ SignificantTrend(nd["SOL"].volume, reads[1].volumes)
    THEN 3
    ELSE IF PercentMoveAtLeast(nd["DOT"].current_price, last["DOT"].current_price,
                               PRICE_CHANGE_THRESHOLD) THEN 4
    ELSE IF PercentMoveAtLeast(nd["DOT"].volume, last["DOT"].volume,
                               VOLUME_CHANGE_THRESHOLD) THEN 5
    ELSE IF Len(reads) >= 2 /\ SignificantTrend(nd["DOT"].volume, reads[2].volumes)
    THEN 6
    ELSE 0

\* The reason each of the six checks gives.
ReasonOfCheck(k, nd, reads) ==
    CASE k = 1 -> "price_change_sol"
      [] k = 2 -> "volume_change_sol"
      [] k = 3 -> "volume_trend_sol_" \o TrendDirection(nd["SOL"].volume, reads[1].volumes)
      [] k = 4 -> "price_change_dot"
      [] k = 5 -> "volume_change_dot"
      [] k = 6 -> "volume_trend_dot_" \o TrendDirection(nd["DOT"].volume, reads[2].volumes)

\* The chains whose history the Store is asked for when check k is the first
\* to fire (k = 0: none fires).
ChainsReadUpTo(k) ==
    CASE k \in {1, 2} -> << >>
      [] k \in {3, 4, 5} -> << "SOL" >>
      [] k \in {0, 6} -> << "SOL", "DOT" >>

\* C11: with no baseline (last_market_data empty) a call returns
\* (True, "initial_post") for any snapshot and makes the snapshot the baseline;
\* it reads no history, raises nothing whatever the snapshot holds, and the
\* interval having passed does not change the reason.
C11_InitialPost ==
    [][ (IsTriggerCall /\ last_market_data = << >>)
            => /\ tstate' = "returned"
               /\ should_post'
               /\ trigger_reason' = "initial_post"
               /\ last_market_data' = new_data'
               /\ new_data' \in Snapshots
               /\ store_reads' = << >> ]_vars

\* The first call came after BASE_INTERVAL had passed, with a snapshot whose
\* SOL price and volume are 0: initial_post all the same.
C11_Witness ==
    /\ tstate = "returned"
    /\ trigger_reason = "initial_post"
    /\ now - last_check_time >= BASE_INTERVAL
    /\ new_data["SOL"].current_price = 0
    /\ new_data["SOL"].volume = 0
    /\ last_market_data = new_data

\* C12: with a baseline, a call that returns gives the reason of the first
\* check that fires in the order SOL price, SOL volume, SOL trend, DOT price,
\* DOT volume, DOT trend, and the Store's history is read for exactly the
\* chains whose trend check was reached: none of a chain that comes after the
\* firing check.
C12_FirstFiringCheckWins ==
    [][ (IsTriggerCall /\ last_market_data # << >> /\ tstate' = "returned")
            => LET k == FirstFiringCheck(new_data', last_market_data, store_reads')
               IN  /\ [i \in DOMAIN store_reads' |-> store_reads'[i].chain]
                        = ChainsReadUpTo(k)
                   /\ k # 0 => trigger_reason'
                                    = ReasonOfCheck(k, new_data', store_reads')
                   /\ k = 0 => trigger_reason' \in {None, "regular_interval"} ]_vars

\* SOL's trend check fired on the history read for SOL; DOT's history was not
\* read.
C12_Witness ==
    /\ tstate = "returned"
    /\ trigger_reason = "volume_trend_sol_significant_increase"
    /\ Len(store_reads) = 1
    /\ store_reads[1].chain = "SOL"
    /\ new_data["DOT"].current_price = 105

\* The move is exactly the threshold / strictly below it (base > 0).
PercentMoveExactly(new, base, threshold) ==
    (IF new >= base THEN new - base ELSE base - new) * 100 = threshold * base

PercentMoveBelow(new, base, threshold) ==
    (IF new >= base THEN new - base ELSE base - new) * 100 < threshold * base

\* No check of SOL fired: both immediate moves below their thresholds and the
\* history read for SOL shows no significant trend.
NoSolCheckFired(nd, last, reads) ==
    /\ PercentMoveBelow(nd["SOL"].current_price, last["SOL"].current_price,
                        PRICE_CHANGE_THRESHOLD)
    /\ PercentMoveBelow(nd["SOL"].volume, last["SOL"].volume, VOLUME_CHANGE_THRESHOLD)
    /\ Len(reads) >= 1
    /\ ~SignificantTrend(nd["SOL"].volume, reads[1].volumes)

\* C13: with a baseline, in a call that returns, a price move of exactly
\* PRICE_CHANGE_THRESHOLD percent fires price_change_<chain> when no earlier
\* check fired, and a move strictly below it never gives that reason; the
\* volume move does the same against VOLUME_CHANGE_THRESHOLD with
\* volume_change_<chain>.
C13_InclusiveThresholds ==
    [][ (IsTriggerCall /\ last_market_data # << >> /\ tstate' = "returned")
            => LET nd == new_data'
                   last == last_market_data
                   PriceExactly(c) ==
                       PercentMoveExactly(nd[c].current_price, last[c].current_price,
                                          PRICE_CHANGE_THRESHOLD)
                   PriceBelow(c) ==
                       PercentMoveBelow(nd[c].current_price, last[c].current_price,
                                        PRICE_CHANGE_THRESHOLD)
                   VolumeExactly(c) ==
                       PercentMoveExactly(nd[c].volume, last[c].volume,
                                          VOLUME_CHANGE_THRESHOLD)
                   VolumeBelow(c) ==
                       PercentMoveBelow(nd[c].volume, last[c].volume,
                                        VOLUME_CHANGE_THRESHOLD)
                   Earlier(c) == c = "SOL" \/ NoSolCheckFired(nd, last, store_reads')
               IN  \A c \in {"SOL", "DOT"} :
                     /\ (Earlier(c) /\ PriceExactly(c))
                            => (should_post'
                                  /\ trigger_reason' = "price_change_" \o Lower(c))
                     /\ PriceBelow(c) => trigger_reason' # "price_change_" \o Lower(c)
                     /\ (Earlier(c) /\ PriceBelow(c) /\ VolumeExactly(c))
                            => (should_post'
                                  /\ trigger_reason' = "volume_change_" \o Lower(c))
                     /\ VolumeBelow(c)
                            => trigger_reason' # "volume_change_" \o Lower(c) ]_vars

\* DOT's price went from 100 to 105, exactly the threshold (the only move of
\* DOT's price in the model that fires), after SOL's checks had not fired.
C13_Witness ==
    /\ tstate = "returned"
    /\ trigger_reason = "price_change_dot"
    /\ new_data["DOT"].current_price = 105
    /\ Len(store_reads) = 1

\* C14: with a baseline, in a call that returns in which no price, volume or
\* trend check fired, the result is (True, "regular_interval") when at least
\* BASE_INTERVAL has passed since last_check_time and (False, None) when less
\* has; when a check fired the result is its reason, never regular_interval.
C14_RegularInterval ==
    [][ (IsTriggerCall /\ last_market_data # << >> /\ tstate' = "returned")
            => LET k == FirstFiringCheck(new_data', last_market_data, store_reads')
               IN  IF k = 0
                   THEN IF now - last_check_time >= BASE_INTERVAL
                        THEN should_post' /\ trigger_reason' = "regular_interval"
                        ELSE ~should_post' /\ trigger_reason' = None
                   ELSE /\ should_post'
                        /\ trigger_reason' \notin {None, "regular_interval"} ]_vars

\* Exactly BASE_INTERVAL after last_check_time all six checks were made, none
\* fired, and the regular interval triggered the post.
C14_Witness ==
    /\ tstate = "returned"
    /\ should_post
    /\ trigger_reason = "regular_interval"
    /\ now - last_check_time = BASE_INTERVAL
    /\ Len(store_reads) = 2

(***************************************************************************)
(* Properties of the mood classifier.                                      *)
(***************************************************************************)
\* The place of a mood in the order bullish, bearish, neutral, volatile,
\* recovering.
Priority(m) ==
    CASE m = "bullish" -> 1 [] m = "bearish" -> 2 [] m = "neutral" -> 3
      [] m = "volatile" -> 4 [] m = "recovering" -> 5

FiveMoods == {"bullish", "bearish", "neutral", "volatile", "recovering"}

\* C15: the classifier can be applied to every input and what it returns is
\* one of the five moods, one with the highest score, and no mood earlier in
\* the order bullish, bearish, neutral, volatile, recovering has that score.
C15_OneMoodEarliestWins ==
    /\ mood = None => ENABLED DetermineAdvancedMood
    /\ mood # None
        => /\ mood \in FiveMoods
           /\ \A m \in FiveMoods :
                /\ Score(mood_scores, m) <= Score(mood_scores, mood)
                /\ Priority(m) < Priority(mood)
                     => Score(mood_scores, m) < Score(mood_scores, mood)

\* No rule fired (a price change between 2 and 5, low volatility and volume,
\* no optional indicator): five scores of 0, and bullish was returned.
C15_Witness ==
    /\ mood = "bullish"
    /\ indicators.price_change = 3
    /\ \A m \in FiveMoods : Score(mood_scores, m) = 0

\* The five scores of the scoring in five steps, each as the sum of what the
\* steps add to it.
StepScore(ind, m) ==
    LET c == ind.price_change
        v == ind.volatility
        high == ind.trading_volume > 15
        social == ind.social_sentiment
        funding == ind.funding_rates
        liquidation == ind.liquidation_volume
        On(b, n) == IF b THEN n ELSE 0
    IN  CASE m = "bullish" ->
                On(c > 5, 3) + On(high /\ c > 0, 1)
                    + On(social # Unset /\ social[1] > 7, 1)
          [] m = "bearish" ->
                On(c < 0 - 5, 3) + On(high /\ c <= 0, 1)
                    + On(social # Unset /\ social[1] < 3, 1)
                    + On(liquidation # Unset /\ liquidation[1] > 1, 1)
          [] m = "neutral" -> On(c >= 0 - 2 /\ c <= 2, 2)
          [] m = "volatile" ->
                On(v > 10, 3) + On(v > 5 /\ v <= 10, 1) + On(high, 1)
                    + On(funding # Unset /\ (funding[1] > 1 \/ funding[1] < 0 - 1), 1)
                    + On(liquidation # Unset /\ liquidation[1] > 1, 2)
          [] m = "recovering" ->
                On(c >= 0 - 5 /\ c < 0 - 2, 2)
                    + On(c >= 0 - 8 /\ c < 0 - 2 /\ v < 8, 2)

\* C16: for every input of the grid the five scores the classifier ends with
\* are those of the five steps applied in sequence, and the mood returned has
\* the highest of them.
C16_ScoresAsSpecified ==
    mood # None
        => /\ \A m \in FiveMoods : Score(mood_scores, m) = StepScore(indicators, m)
           /\ mood \in FiveMoods
           /\ \A m \in FiveMoods :
                StepScore(indicators, m) <= StepScore(indicators, mood)

\* A price change of 0 with high volume: bearish got the point of the volume
\* step, next to neutral's 2 and volatile's 1.
C16_Witness ==
    /\ mood = "neutral"
    /\ indicators.price_change = 0
    /\ indicators.trading_volume = 16
    /\ Score(mood_scores, "bearish") = 1
    /\ Score(mood_scores, "volatile") = 1
    /\ Score(mood_scores, "neutral") = 2

\* price_change = 0, volatility = 0, volume not above 1.5e9, no optional
\* indicator
FlatIndicators ==
    /\ indicators.price_change = 0
    /\ indicators.volatility = 0
    /\ indicators.trading_volume <= 15
    /\ indicators.social_sentiment = Unset
    /\ indicators.funding_rates = Unset
    /\ indicators.liquidation_volume = Unset

\* C17 (as claimed): for flat indicators no rule fires, the five scores stay
\* 0 and the mood returned is the first of the tie-break order.
C17_AllZeroAsClaimed ==
    (mood # None /\ FlatIndicators)
        => /\ \A m \in FiveMoods : Score(mood_scores, m) = 0
           /\ mood = "bullish"

\* C17 (amended): for flat indicators the neutral rule of the price step,
\* and no other rule, fires; the classifier returns one mood, neutral.
C17_FlatIsNeutral ==
    /\ (mood = None /\ FlatIndicators) => ENABLED DetermineAdvancedMood
    /\ (mood # None /\ FlatIndicators)
        => /\ Score(mood_scores, "neutral") = 2
           /\ \A m \in FiveMoods \ {"neutral"} : Score(mood_scores, m) = 0
           /\ mood = "neutral"

\* Flat indicators, with the volume at 1.5e9 exactly, were classified.
C17_Witness ==
    /\ mood # None
    /\ FlatIndicators
    /\ indicators.trading_volume = 15

(***************************************************************************)
(* Properties of the trend analysis and of the correlations.               *)
(***************************************************************************)
\* C18: for an empty history the result is (0, insufficient_data); for a
\* history with a positive mean the change is (current - mean) / mean * 100
\* and the trend is the first match of: >= the trend threshold,
\* significant_increase; <= minus the threshold, significant_decrease; >= 5,
\* moderate_increase; <= -5, moderate_decrease; else stable.  With the
\* threshold at 10, a change of exactly 10 is significant_increase, 9.99
\* moderate_increase and 4.9 stable.  (pct below is the change times the sum
\* of the history, so the change is the fraction pct / total.)
C18_VolumeTrend ==
    volume_trend # Unset
        => LET cur == trend_args.current_volume
               h == trend_args.historical_data
               total == SumSeq(h)
               pct == (cur * Len(h) - total) * 100
               r == volume_trend[1]
           IN  /\ h = << >> => (r.change[1] = 0 /\ r.trend = "insufficient_data")
               /\ (h # << >> /\ total > 0)
                    => /\ r.change = << pct, total >>
                       /\ r.trend =
                             IF pct >= VOLUME_TREND_THRESHOLD * total
                             THEN "significant_increase"
                             ELSE IF pct <= (0 - VOLUME_TREND_THRESHOLD) * total
                             THEN "significant_decrease"
                             ELSE IF pct >= 5 * total THEN "moderate_increase"
                             ELSE IF pct <= (0 - 5) * total THEN "moderate_decrease"
                             ELSE "stable"
                       /\ VOLUME_TREND_THRESHOLD = 10
                            => /\ pct = 10 * total => r.trend = "significant_increase"
                               /\ pct * 100 = 999 * total
                                    => r.trend = "moderate_increase"
                               /\ pct * 10 = 49 * total => r.trend = "stable"

\* A volume of 11000 against a history of 12000 and 8000: exactly 10 percent
\* above the mean.
C18_Witness ==
    /\ volume_trend # Unset
    /\ trend_args.current_volume = 11000
    /\ trend_args.historical_data = << 12000, 8000 >>
    /\ volume_trend[1].trend = "significant_increase"

\* C19 (as claimed): every result of _calculate_correlations has
\* price_correlation and volume_correlation between 0 and 1 and a positive
\* market_cap_ratio.
C19_CorrelationRanges ==
    correlations # Unset
        => LET r == correlations[1]
           IN  /\ 0 <= r.price_correlation.num
               /\ r.price_correlation.num <= r.price_correlation.den
               /\ 0 <= r.volume_correlation.num
               /\ r.volume_correlation.num <= r.volume_correlation.den
               /\ r.market_cap_ratio.num > 0

\* C20 (as claimed): when the two 24 h price changes have the same non-zero
\* magnitude, whatever their signs, a computed result has price_correlation
\* = 1.
C20_EqualMagnitudeGivesOne ==
    (cstate = "computed"
        /\ Abs(market_data["SOL"].price_change_percentage_24h[1])
             = Abs(market_data["DOT"].price_change_percentage_24h[1]))
        => correlations[1].price_correlation.num
             = correlations[1].price_correlation.den

\* The market data with the two chains' snapshots exchanged.
SwapChains(md) == [c \in DOMAIN md |-> IF c = "SOL" THEN md["DOT"] ELSE md["SOL"]]

\* Two fractions of the same value
SameValue(f, g) == f.den # 0 /\ g.den # 0 /\ f.num * g.den = g.num * f.den

\* C21: when the correlations are computed for a pair of snapshots, and are
\* computed for the exchanged pair too, exchanging the snapshots leaves
\* price_correlation and volume_correlation as they are and turns
\* market_cap_ratio into its reciprocal.
C21_SwapSymmetry ==
    (cstate = "computed" /\ ~CorrelationsRaise(SwapChains(market_data)))
        => LET r == correlations[1]
               q == ComputedCorrelations(SwapChains(market_data))
           IN  /\ SameValue(r.price_correlation, q.price_correlation)
               /\ SameValue(r.volume_correlation, q.volume_correlation)
               /\ r.market_cap_ratio.den # 0 /\ q.market_cap_ratio.den # 0
               /\ r.market_cap_ratio.num * q.market_cap_ratio.num
                    = r.market_cap_ratio.den * q.market_cap_ratio.den

\* Unequal changes, volumes and caps, computed in both orders.
C21_Witness ==
    /\ cstate = "computed"
    /\ ~CorrelationsRaise(SwapChains(market_data))
    /\ market_data["SOL"] = ChainData(Some(2), 1100, 2)
    /\ market_data["DOT"] = ChainData(Some(0 - 5), 1000, 1)
    /\ correlations[1].market_cap_ratio = Fraction(2, 1)

\* The inputs C22 names: a chain or a key missing, a change that is null, both
\* changes 0, both volumes 0, DOT's market cap 0.
DivisionByZeroOrMissing(md) ==
    \/ DOMAIN md # {"SOL", "DOT"}
    \/ \E c \in DOMAIN md : DOMAIN md[c] # CorrelationFields
    \/ \E c \in DOMAIN md : md[c].price_change_percentage_24h = << >>
    \/ /\ md["SOL"].price_change_percentage_24h = << 0 >>
       /\ md["DOT"].price_change_percentage_24h = << 0 >>
    \/ md["SOL"].volume = 0 /\ md["DOT"].volume = 0
    \/ md["DOT"].market_cap = 0

\* C22: on a division by zero or a missing chain or field the call returns
\* exactly price_correlation 0, volume_correlation 0, market_cap_ratio 1,
\* raises nothing, and no correlation row is written.
C22_FallbackOnFailure ==
    (cstate # "init" /\ DivisionByZeroOrMissing(market_data))
        => /\ cstate = "fallback"
           /\ correlations
                = << [price_correlation |-> [num |-> 0, den |-> 1],
                      volume_correlation |-> [num |-> 0, den |-> 1],
                      market_cap_ratio |-> [num |-> 1, den |-> 1]] >>
           /\ correlation_rows = << >>

\* DOT's market cap is 0 and nothing else is wrong: the fallback is returned.
C22_Witness ==
    /\ cstate = "fallback"
    /\ DOMAIN market_data = {"SOL", "DOT"}
    /\ DOMAIN market_data["DOT"] = CorrelationFields
    /\ market_data["SOL"] = ChainData(Some(5), 1000, 2)
    /\ market_data["DOT"] = ChainData(Some(5), 1000, 0)
    /\ correlations = Some(FallbackCorrelations)
    /\ correlation_rows = << >>

\* The percentage move of a chain against the sentiment of the prediction,
\* as C27 words it: sign * ((current - old) / old * 100) < -2, with the sign
\* +1 for bullish, -1 for bearish, 0 otherwise.
MovedAgainst(sentiment, old, current) ==
    LET sign == IF sentiment = "bullish" THEN 1
                ELSE IF sentiment = "bearish" THEN 0 - 1 ELSE 0
    IN  old > 0 /\ sign * (current - old) * 100 < (0 - 2) * old

\* C27: a validation that returns, returns wrong exactly when some chain of
\* both the prediction and the current prices moved more than 2 percent
\* against its sentiment, and right otherwise; bullish 100 -> 95 is wrong,
\* bullish 100 -> 98 is right.
C27_WrongIffMovedAgainst ==
    (validate_result # Unset /\ validate_result # << "raised" >>)
        => LET p == validate_args.prediction
               cp == validate_args.current_prices
               common == DOMAIN p.prices \cap DOMAIN cp
               against == \E c \in common :
                              MovedAgainst(p.sentiment[c], p.prices[c], cp[c])
           IN  /\ validate_result = << IF against THEN "wrong" ELSE "right" >>
               /\ (common = {"SOL"} /\ p.sentiment["SOL"] = "bullish"
                     /\ p.prices["SOL"] = 100 /\ cp["SOL"] = 95)
                    => validate_result = << "wrong" >>
               /\ (common = {"SOL"} /\ p.sentiment["SOL"] = "bullish"
                     /\ p.prices["SOL"] = 100 /\ cp["SOL"] = 98)
                    => validate_result = << "right" >>

\* Bullish on SOL at 100, DOT neutral; SOL is now at 95: wrong.
C27_Witness ==
    /\ validate_result = << "wrong" >>
    /\ DOMAIN validate_args.prediction.prices = {"SOL", "DOT"}
    /\ validate_args.prediction.sentiment["SOL"] = "bullish"
    /\ validate_args.prediction.sentiment["DOT"] = "neutral"
    /\ validate_args.prediction.prices["SOL"] = 100
    /\ validate_args.current_prices = [c \in {"SOL", "DOT"} |-> IF c = "SOL" THEN 95 ELSE 100]

\* A step that is a _track_prediction call, a _get_spicy_callback call, a
\* _get_spicy_callback call that returned.
IsTrack == pstate' = "tracked" /\ past_predictions' # past_predictions
IsCallback == pstate' \in {"returned", "raised"} /\ now' = now
IsCallbackReturn == pstate' = "returned" /\ now' = now

\* The entries of a list at the positions of keep, in list order
RECURSIVE Restrict(_, _, _)
Restrict(list, keep, i) ==
    IF i > Len(list) THEN << >>
    ELSE (IF i \in keep THEN << list[i] >> ELSE << >>) \o Restrict(list, keep, i + 1)

AllButLast(list) == SubSeq(list, 1, Len(list) - 1)

\* C23: an outcome that is right or wrong never changes, whatever the
\* operation and the prices: a callback leaves every decided entry as it is
\* and validates only entries that were pending, each once; a record
\* operation only drops entries and appends one; nothing else touches the
\* list.
C23_OutcomeSetOnce ==
    [][/\ IsCallback
            => /\ Len(past_predictions') = Len(past_predictions)
               /\ \A i \in 1..Len(past_predictions) :
                     past_predictions[i].outcome # "None"
                        => past_predictions'[i] = past_predictions[i]
               /\ \A k \in 1..Len(validated') :
                     /\ past_predictions[validated'[k]].outcome = "None"
                     /\ \A m \in 1..Len(validated') :
                           validated'[m] = validated'[k] => m = k
       /\ IsTrack
            => \E keep \in SUBSET (1..Len(past_predictions)) :
                  AllButLast(past_predictions') = Restrict(past_predictions, keep, 1)
       /\ (~IsCallback /\ ~IsTrack) => past_predictions' = past_predictions
      ]_vars

\* A bullish prediction made at 100 was found right; a later callback, with
\* SOL at 95, validated the second entry only.
C23_Witness ==
    /\ pstate = "returned"
    /\ Len(past_predictions) = 2
    /\ past_predictions[1].outcome = "right"
    /\ past_predictions[1].sentiment["SOL"] = "bullish"
    /\ past_predictions[1].prices["SOL"] = 100
    /\ current_prices["SOL"] = 95
    /\ validated = << 2 >>

\* C26 (as claimed): _track_prediction appends the new prediction with no
\* outcome and drops exactly the entries whose age exceeds 86400 s.
C26_PrunedOnlyBeyondWindow ==
    [][IsTrack
        => /\ Len(past_predictions') >= 1
           /\ past_predictions'[Len(past_predictions')].outcome = "None"
           /\ past_predictions'[Len(past_predictions')].timestamp = now'
           /\ AllButLast(past_predictions')
                = SelectSeq(past_predictions,
                            LAMBDA p : ~(now' - p.timestamp > 86400))
      ]_vars

\* C26 (amended): _track_prediction appends the new prediction with no
\* outcome and drops exactly the entries whose age is at least 86400 s: one
\* recorded 86401 s ago is dropped, one recorded 86399 s ago stays.
C26_PrunedFromWindowOn ==
    [][IsTrack
        => /\ Len(past_predictions') >= 1
           /\ past_predictions'[Len(past_predictions')].outcome = "None"
           /\ past_predictions'[Len(past_predictions')].timestamp = now'
           /\ AllButLast(past_predictions')
                = SelectSeq(past_predictions,
                            LAMBDA p : ~(now' - p.timestamp >= 86400))
      ]_vars

\* A record operation dropped an entry recorded exactly 86400 s before and
\* kept one recorded 86399 s before.
C26_Witness ==
    /\ pstate = "tracked"
    /\ \E k \in 1..Len(pruned) : now - pruned[k].timestamp = 86400
    /\ Len(past_predictions) = 2
    /\ now - past_predictions[1].timestamp = 86399
    /\ past_predictions[2].timestamp = now
    /\ past_predictions[2].outcome = "None"

\* The wrong predictions recorded within the last 24 hours, by position
RecentWrong(list, t) ==
    {i \in 1..Len(list) : t - list[i].timestamp < 86400 /\ list[i].outcome = "wrong"}

\* C28: a callback that returns gives a text exactly when some prediction of
\* the last 24 hours is wrong, and the text carries the text and the age in
\* whole hours of the most recently recorded of them, which is never older
\* than 24 hours.
C28_CallbackReferencesLatestWrong ==
    [][IsCallbackReturn
        => LET wrong == RecentWrong(past_predictions', now')
           IN  /\ callback' = << >> <=> wrong = {}
               /\ wrong # {}
                    => \E i \in wrong :
                         /\ \A j \in wrong :
                               /\ j <= i
                               /\ past_predictions'[j].timestamp
                                    <= past_predictions'[i].timestamp
                         /\ callback'[1].prediction = past_predictions'[i].prediction
                         /\ callback'[1].time_ago * 3600
                              <= now' - past_predictions'[i].timestamp
                         /\ now' - past_predictions'[i].timestamp
                              < (callback'[1].time_ago + 1) * 3600
                         /\ now' - past_predictions'[i].timestamp <= 86400
      ]_vars

\* 86399 s after two predictions were recorded the first is wrong and the
\* second right: the callback speaks of the first, 23 hours old.
C28_Witness ==
    /\ pstate = "returned"
    /\ Len(past_predictions) = 2
    /\ past_predictions[1].outcome = "wrong"
    /\ past_predictions[1].prediction = "take_b"
    /\ past_predictions[2].outcome = "right"
    /\ past_predictions[2].prediction = "take_a"
    /\ now - past_predictions[1].timestamp = 86399
    /\ callback # << >>
    /\ callback[1].prediction = "take_b"
    /\ callback[1].time_ago = 23

\* C24 (as claimed): the entries a callback validates were all recorded in an
\* earlier cycle than the running one, whatever the attempt.
C24_ValidatedByLaterCycle ==
    [][cycle_pc = "analyze"
        => \A k \in 1..Len(validated') :
              recorded_in[validated'[k]].cycle < cycle
      ]_vars

\* C25 (as claimed): when a cycle has ended, the predictions of the list that
\* were recorded in a cycle are no more than the updates published in that
\* cycle, and each carries the text of one of them.
C25_PredictionsArePublished ==
    cycle_pc = "done"
        => \A c \in 1..cycle :
              LET recs == {i \in 1..Len(past_predictions) : recorded_in[i].cycle = c}
                  pubs == {k \in 1..Len(posted) : posted[k].cycle = c}
              IN  /\ Cardinality(recs) <= Cardinality(pubs)
                  /\ \A i \in recs :
                        \E k \in pubs :
                            posted[k].tweet[1] = past_predictions[i].prediction

\* C29: an update is published only by the post step of a cycle that decided
\* to post and has its analysis, once per cycle; a fetch without data ends
\* the cycle with the baseline, the predictions, the trigger engine and the
\* published updates as they were; a cycle whose analysis fails ends with
\* nothing published; a ZeroDivisionError of the trigger decision ends the
\* cycle and nothing more.
C29_AllOrNothing ==
    [][/\ posted' # posted
            => /\ cycle_pc = "post"
               /\ should_post
               /\ trigger_reason # "None"
               /\ crypto_data # << >>
               /\ analysis # << >>
               /\ posted' = Append(posted, [tweet |-> analysis[1], cycle |-> cycle])
               /\ \A k \in 1..Len(posted) : posted[k].cycle # cycle
       /\ (cycle_pc = "fetch" /\ crypto_data' = << >>)
            => /\ cycle_pc' = "done"
               /\ UNCHANGED <<last_market_data, past_predictions, posted, new_data,
                              should_post, trigger_reason, tstate, store_reads>>
       /\ (cycle_pc \in {"analyze", "generate", "similarity"} /\ cycle_pc' = "done")
            => /\ analysis' = << >>
               /\ \A k \in 1..Len(posted') : posted'[k].cycle # cycle'
       /\ (cycle_pc = "decide" /\ tstate' = "raised")
            => cycle_pc' = "done" /\ posted' = posted
       /\ cycle_pc' \in {"fetch", "decide", "analyze", "generate", "similarity",
                         "check_duplicate", "post", "done"}
      ]_vars

\* The first cycle got no data; the second published one update, for SOL's
\* price having fallen by 5 percent.
C29_Witness ==
    /\ cycle = 2
    /\ cycle_pc = "done"
    /\ trigger_reason = "price_change_sol"
    /\ Len(posted) = 1
    /\ posted[1].cycle = 2
    /\ posted[1].tweet = analysis[1]
    /\ Len(past_predictions) = 1

\* What C30 names: a tracked chain is absent from the response, or a coin of
\* it lacks a required field.
ChainAbsentOrFieldMissing(data) ==
    \/ \E chain \in {"SOL", "DOT"} :
          \A i \in 1..Len(data) :
             "symbol" \in DOMAIN data[i] => data[i].symbol # Lower(chain)
    \/ \E i \in 1..Len(data) :
          \E f \in {"symbol", "current_price", "total_volume",
                    "price_change_percentage_24h", "market_cap", "market_cap_rank"} :
             f \notin DOMAIN data[i]

\* C30: when a tracked chain is absent from the response or a coin lacks a
\* required field, _get_crypto_data returns None and the cycle ends with the
\* trigger engine untouched; the trigger decision is only ever reached with
\* data that holds every tracked chain.
C30_NoDataOnMissingChainOrField ==
    [][/\ (cycle_pc = "fetch" /\ ChainAbsentOrFieldMissing(api_data'))
            => /\ crypto_data' = << >>
               /\ cycle_pc' = "done"
               /\ UNCHANGED <<last_market_data, new_data, should_post,
                              trigger_reason, tstate, store_reads>>
       /\ cycle_pc' = "decide"
            => /\ crypto_data' # << >>
               /\ {"SOL", "DOT"} \subseteq DOMAIN crypto_data'[1]
      ]_vars

\* The first response held SOL alone: its row was stored, no data was
\* returned, and the trigger engine has never been called.
C30_Witness ==
    /\ cycle = 1
    /\ cycle_pc = "done"
    /\ Len(api_data) = 1
    /\ api_data[1].symbol = "sol"
    /\ market_rows = << "SOL" >>
    /\ crypto_data = << >>
    /\ tstate = "init"
    /\ last_market_data = << >>

\* C31: the retry counter of an analysis only grows by one, from below 3; an
\* attempt that fails before or in the generation waits 10 s times the new
\* count (10, 20, 30 s); an attempt only starts with fewer than 3 failures;
\* and the step that brings the count to 3 ends the analysis with no result
\* (None returned to the cycle, which ends).
C31_BoundedAttemptsLinearWait ==
    [][/\ (cycle' = cycle /\ analysis_retry' # analysis_retry)
            => /\ analysis_retry < 3
               /\ analysis_retry' = analysis_retry + 1
       /\ (cycle_pc \in {"analyze", "generate"} /\ analysis_retry' = analysis_retry + 1)
            => now' - now = 10 * analysis_retry'
       /\ (cycle_pc = "similarity" /\ analysis_retry' = analysis_retry + 1)
            => now' - now \in {0, 10 * analysis_retry'}
       /\ cycle_pc' \in {"analyze", "generate", "similarity"} => analysis_retry' < 3
       /\ (cycle' = cycle /\ analysis_retry' = 3 /\ analysis_retry = 2)
            => cycle_pc' = "done" /\ analysis' = << >> /\ posted' = posted
      ]_vars

\* Three attempts of the first cycle have failed: 10 + 20 + 30 s were waited
\* and the analysis ended without a result.
C31_Witness ==
    /\ cycle = 1
    /\ cycle_pc = "done"
    /\ analysis_retry = 3
    /\ analysis = << >>
    /\ now = StartTime + 60

\* C32: every way start() ends (interrupt, setup retries exhausted, another
\* exception) brings it to its finally clause with _cleanup not yet run; the
\* step after that is the one run of _cleanup; start() has returned only
\* after exactly one run, and _cleanup never runs a second time.
C32_CleanupExactlyOnce ==
    [][/\ (ended_by = None /\ ended_by' # None)
            => /\ ended_by' \in {"interrupt", "setup_exhausted", "exception"}
               /\ start_pc' = "stopping"
               /\ cleanup_runs' = 0
       /\ start_pc' \in {"setup", "running"} => ended_by' = None /\ cleanup_runs' = 0
       /\ start_pc = "stopping" => cleanup_runs' = 1
       /\ start_pc' = "returned" => cleanup_runs' = 1 /\ ended_by' # None
       /\ cleanup_runs' <= 1
       /\ start_pc \notin {"returned", "raised"}
      ]_vars

\* The user interrupted the second cycle while the narrative was awaited;
\* _cleanup ran once and start() returned.
C32_Witness ==
    /\ start_pc = "returned"
    /\ ended_by = "interrupt"
    /\ cycle = 2
    /\ cycle_pc = "generate"
    /\ cleanup_runs = 1

\* Three setup passes failed; _cleanup ran once and start() returned.
C32_WitnessSetupExhausted ==
    /\ start_pc = "returned"
    /\ ended_by = "setup_exhausted"
    /\ setup_retry = 3
    /\ cleanup_runs = 1

\* C34: last_check_time is assigned by the step that ends the sleep between
\* two cycles and by no other, and it becomes the time the next cycle
\* begins; a trigger decision the running bot takes with a baseline, less than BASE_INTERVAL
\* after last_check_time, never gives regular_interval: when no price, volume
\* or trend check fires it answers (False, None).
C34_NoRegularInterval ==
    [][/\ last_check_time' # last_check_time
            => cycle_pc = "done" /\ cycle_pc' = "fetch"
       /\ (cycle_pc = "done" /\ cycle_pc' = "fetch")
            => last_check_time' = now' /\ cycle' = cycle + 1
       /\ (/\ cycle_pc = "decide"
           /\ cycle_pc' # "decide"
           /\ start_pc' = "running"
           /\ last_market_data # << >>
           /\ now - last_check_time < BASE_INTERVAL
           /\ tstate' = "returned")
            => /\ trigger_reason' # "regular_interval"
               /\ trigger_reason' \in {None, "regular_interval"}
                    => ~should_post' /\ trigger_reason' = None
                       /\ last_market_data' = last_market_data
      ]_vars

\* The second cycle fetched in one second the prices of the baseline: no
\* check fired, the decision was (False, None) and the cycle ended.
C34_Witness ==
    /\ start_pc = "running"
    /\ cycle = 2
    /\ cycle_pc = "done"
    /\ last_market_data # << >>
    /\ crypto_data # << >>
    /\ now - last_check_time = 1
    /\ tstate = "returned"
    /\ ~should_post
    /\ trigger_reason = None

\* The fetch of the second cycle took BASE_INTERVAL seconds and the decision
\* was regular_interval.
C34_SlowFetchWitness ==
    /\ cycle = 2
    /\ cycle_pc = "analyze"
    /\ now - last_check_time = BASE_INTERVAL
    /\ trigger_reason = "regular_interval"

\* The Store holds a row with the text of the cycle's analysis, written
\* since the cycle began.
StoredThisCycle(rows) ==
    \E k \in 1..Len(rows) :
        /\ rows[k].content = analysis[1]
        /\ rows[k].timestamp >= last_check_time
        /\ rows[k].timestamp >= now - 3600

\* C35: the analysis is returned to the cycle by the step that calls
\* store_posted_content, so an insert that succeeds has its row in the Store
\* before the duplicate check; when that row is there and
\* check_content_similarity answers by the table, _is_duplicate_analysis is
\* True, the cycle ends and _post_analysis is not called; so every call of
\* _post_analysis follows a failed insert or a failed check.
C35_StoredBeforeDuplicateCheck ==
    [][/\ (analysis = << >> /\ analysis' # << >>)
            => /\ cycle_pc = "similarity" /\ cycle_pc' = "check_duplicate"
               /\ \/ posted_content' = posted_content
                  \/ posted_content' =
                        Append(posted_content,
                               [content |-> analysis'[1], timestamp |-> now])
       /\ (/\ cycle_pc = "check_duplicate"
           /\ dup_check' = "answered"
           /\ StoredThisCycle(posted_content))
            => cycle_pc' = "done" /\ posted' = posted
       /\ cycle_pc' = "post"
            => ~(dup_check' = "answered" /\ StoredThisCycle(posted_content))
       /\ posted' # posted
            => ~(dup_check = "answered" /\ StoredThisCycle(posted_content))
      ]_vars

\* The first cycle generated its update and stored it; the duplicate check
\* found that row and the cycle ended with nothing published.
C35_Witness ==
    /\ cycle = 1
    /\ cycle_pc = "done"
    /\ analysis # << >>
    /\ dup_check = "answered"
    /\ Len(posted_content) = 1
    /\ posted_content[1].content = analysis[1]
    /\ posted = << >>

\* The baseline holds a price or a volume of 0 for SOL, the first chain.
ZeroSolBaseline(last) ==
    /\ last # << >>
    /\ last["SOL"].current_price = 0 \/ last["SOL"].volume = 0

\* C36: with a baseline whose SOL price or volume is 0, the trigger decision
\* (when the user does not interrupt before it) raises, the cycle ends there, and the baseline, the last decision returned
\* and the published updates stay as they were; once the cycle that set such
\* a baseline has ended, every later cycle fetches, at most decides, and
\* ends: the analysis is never started again, however long the fetch took.
C36_ZeroBaselineNeverTriggersAgain ==
    [][/\ (cycle_pc = "decide" /\ ZeroSolBaseline(last_market_data)
           /\ start_pc' = "running")
            => /\ tstate' = "raised"
               /\ cycle_pc' = "done"
               /\ UNCHANGED <<last_market_data, should_post, trigger_reason, posted>>
       /\ (cycle_pc \in {"done", "fetch", "decide"} /\ ZeroSolBaseline(last_market_data)
           /\ start_pc' = "running")
            => /\ cycle_pc' \in {"done", "fetch", "decide"}
               /\ UNCHANGED <<last_market_data, posted, past_predictions>>
      ]_vars

\* The first cycle made a snapshot with volume 0 the baseline; the second
\* fetched for BASE_INTERVAL seconds, so that the regular interval was due,
\* and its decision raised.
C36_Witness ==
    /\ start_pc = "running"
    /\ cycle = 2
    /\ cycle_pc = "done"
    /\ last_market_data # << >>
    /\ last_market_data["SOL"].volume = 0
    /\ last_market_data["SOL"].current_price > 0
    /\ crypto_data # << >>
    /\ now - last_check_time = BASE_INTERVAL
    /\ tstate = "raised"

\* C33: a call that returns at once from the cache returns the entry's data
\* and leaves last_request_time, the two counters, the rate-limit fields and
\* the cache map as they were; the cache map changes only when a 200 answer
\* is received, which writes the entry of the call's key (its data, the time
\* of arrival) and no other; every other end of a request leaves it alone.
C33_CacheHitHasNoEffect ==
    [][/\ (pc = "idle" /\ now' = now /\ pc' = "idle")
            => /\ result' = cache[cache_key'].data
               /\ UNCHANGED <<cache, last_request_time, daily_requests,
                              failed_requests, rate_limit_remaining,
                              rate_limit_reset_at>>
       /\ cache' # cache => pc = "sent" /\ response'.status = "ok"
       /\ (pc = "sent" /\ response'.status = "ok")
            => /\ DOMAIN cache' = DOMAIN cache \cup {cache_key}
               /\ cache'[cache_key] = [data |-> result', timestamp |-> now']
               /\ \A k \in DOMAIN cache \ {cache_key} : cache'[k] = cache[k]
       /\ (pc # "idle" /\ pc' = "idle" /\ result' = None) => cache' = cache
      ]_vars

\* After one failed and one answered request, a call with the other
\* insertion order was served from the cache: still two requests counted.
C33_Witness ==
    /\ pc = "idle"
    /\ last_ok # << >>
    /\ params # last_ok[1].params
    /\ result = cache[cache_key].data
    /\ issued = 0
    /\ daily_requests = 2
    /\ failed_requests = 1
    /\ last_request_time < now

\* C38: failed_requests never exceeds daily_requests; a failure is counted
\* one at a time, only by the step that ends a request already counted in
\* daily_requests, which leaves no request outstanding to be counted again;
\* and a counter goes back to 0 only together with the other.
C38_FailuresWithinRequests ==
    /\ [](failed_requests <= daily_requests)
    /\ [][/\ failed_requests' > failed_requests
               => /\ failed_requests' = failed_requests + 1
                  /\ pc = "sent" /\ pc' # "sent"
                  /\ daily_requests >= 1
                  /\ daily_requests' = daily_requests
          /\ daily_requests' > daily_requests
               => /\ daily_requests' = daily_requests + 1
                  /\ pc = "ready" /\ pc' = "sent"
                  /\ failed_requests' = failed_requests
          /\ (failed_requests' < failed_requests \/ daily_requests' < daily_requests)
               => /\ failed_requests' = 0
                  /\ daily_requests' = 0
                  /\ daily_reset_time' = now'
         ]_vars

\* A request failed on the first day; the retry found the day over, both
\* counters were reset, and the retry was counted and failed in its turn.
C38_Witness ==
    /\ daily_reset_time > StartTime
    /\ retry_count = 2
    /\ issued = 2
    /\ daily_requests = 1
    /\ failed_requests = 1

\* C39: a request that ends by an exception other than a timeout, or by a
\* 200 answer whose body does not parse, ends the call at once: one failure
\* counted, None returned, no retry used, no wait computed or slept (the
\* clock moves by the latency of the request alone), no further request.
C39_OtherFailureEndsCall ==
    [][(pc = "sent" /\ response'.status \in {"exception", "bad_json"})
            => /\ failed_requests' = failed_requests + 1
               /\ result' = None
               /\ pc' = "idle"
               /\ retry_count' = retry_count
               /\ retry_count < max_retries
               /\ wait_time' = wait_time
               /\ now' - now <= Latency
               /\ UNCHANGED <<issued, daily_requests, last_request_time, cache>>
      ]_vars

\* The first request of a call met a connection failure: the call ended
\* with None, all its retries unused.
C39_Witness ==
    /\ pc = "idle"
    /\ response.status = "exception"
    /\ result = None
    /\ retry_count = 0
    /\ issued = 1
    /\ wait_time = 0
    /\ failed_requests = 1

\* C37: for indicators built by the bot the mood returned is never volatile:
\* the volatile score is no more than the score of a mood that comes before
\* it in the dict (bullish, bearish, neutral), or below the highest score.
C37_NeverVolatile ==
    mood # None
        => /\ mood # "volatile"
           /\ LET volatile == Score(mood_scores, "volatile")
              IN  \/ \E m \in {"bullish", "bearish", "neutral"} :
                        Score(mood_scores, m) >= volatile
                  \/ \E m \in {"recovering"} : Score(mood_scores, m) > volatile

\* A change of +11 % on high volume: volatility 0.11 and the volume give
\* volatile 4 points, and bullish has 4 as well and comes first.
C37_Witness ==
    /\ indicators.price_change = 11
    /\ indicators.volatility = 11
    /\ indicators.trading_volume = 16
    /\ Score(mood_scores, "volatile") = 4
    /\ Score(mood_scores, "bullish") = 4
    /\ mood = "bullish"

\* C40: after _track_prediction returns the list holds no more than
\* MAX_PREDICTIONS entries, for records all made within 24 hours.
C40_AtMostMaxPredictions ==
    (/\ pstate = "tracked"
     /\ \A i \in 1..Len(past_predictions) : StillTracked(past_predictions[i], now))
        => Len(past_predictions) <= MAX_PREDICTIONS

=============================================================================
